---- MODULE Spec2Model ----
(***************************************************************************)
(* MCP server library of the ESP32 playground: the tool registry, the      *)
(* JSON-RPC protocol codec, the dispatch routine handle_request and the    *)
(* HTTP transport that drives it.  Strings are TLA+ strings, C NULL        *)
(* pointers are the value NULL, cJSON items are tagged records, and a      *)
(* missing cJSON member (cJSON_GetObjectItem returning NULL) is NoItem.    *)
(***************************************************************************)
EXTENDS Integers, Sequences, FiniteSets, TLC

\* ------------------------------------------------------------------------
\* Program constants
\* ------------------------------------------------------------------------
MAX_TOOLS == 32
MAX_REQUEST_SIZE == 4096

ESP_OK == "ESP_OK"
ESP_FAIL == "ESP_FAIL"
ESP_ERR_NO_MEM == "ESP_ERR_NO_MEM"
ESP_ERR_INVALID_ARG == "ESP_ERR_INVALID_ARG"
ESP_ERR_INVALID_STATE == "ESP_ERR_INVALID_STATE"

NULL == "NULL"

\* ------------------------------------------------------------------------
\* Bounds of the model
\* ------------------------------------------------------------------------
\* The first FreeNames catalogue tools may be registered in any order; the
\* remaining ones are registered in catalogue order (tool names are
\* interchangeable, so this only removes symmetric registries).
FreeNames == 2
\* In the specification Spec the application registers at most RegBound
\* tools; SpecCap has no such cap and fills the registry to MAX_TOOLS.
RegBound == 3

\* Handshake strings allocated and not yet released, at most.
MaxStrings == 3

\* Content-Length of the POSTs whose size is not at the limit.
TypicalLength == 64

\* The longest parameter array whose schema is explored.
MaxParams == 3

\* The longest array of definitions given to mcp_server_register_tools.
MaxDefinitions == 3

\* ------------------------------------------------------------------------
\* cJSON value model
\* ------------------------------------------------------------------------
NoItem == [t |-> "none"]
JString(s) == [t |-> "string", valuestring |-> s]
JNumber(n) == [t |-> "number", valueint |-> n]
JObject(o) == [t |-> "object", child |-> o]

cJSON_IsString(item) == item.t = "string"
cJSON_IsNumber(item) == item.t = "number"

\* cJSON_GetObjectItem: the member called key, or NoItem when the value has
\* no such child (a value that is not an object has no named children).
cJSON_GetObjectItem(object, key) ==
  IF object.t = "object" /\ key \in DOMAIN object.child
    THEN object.child[key]
    ELSE NoItem

\* ------------------------------------------------------------------------
\* The embedding application's static tool catalogue
\* ------------------------------------------------------------------------
\* The three tools of the example application, a tool whose name differs
\* from the first one in case only, and further tools up to one more than
\* the registry can hold.
ToolNames ==
  <<
     "hello_world", "get_temperature", "set_thermostat", "HELLO_WORLD", "tool05",
     "tool06", "tool07", "tool08", "tool09", "tool10",
     "tool11", "tool12", "tool13", "tool14", "tool15",
     "tool16", "tool17", "tool18", "tool19", "tool20",
     "tool21", "tool22", "tool23", "tool24", "tool25",
     "tool26", "tool27", "tool28", "tool29", "tool30",
     "tool31", "tool32", "tool33"
  >>

ToolHandlers ==
  <<
     "hello_world_handler", "get_temperature_handler", "set_thermostat_handler", "HELLO_WORLD_handler", "tool05_handler",
     "tool06_handler", "tool07_handler", "tool08_handler", "tool09_handler", "tool10_handler",
     "tool11_handler", "tool12_handler", "tool13_handler", "tool14_handler", "tool15_handler",
     "tool16_handler", "tool17_handler", "tool18_handler", "tool19_handler", "tool20_handler",
     "tool21_handler", "tool22_handler", "tool23_handler", "tool24_handler", "tool25_handler",
     "tool26_handler", "tool27_handler", "tool28_handler", "tool29_handler", "tool30_handler",
     "tool31_handler", "tool32_handler", "tool33_handler"
  >>

NumNames == Len(ToolNames)

\* A double is held in tenths: 400 is 40.0, -25 is -2.5.
FromInt(n) == n * 10

\* The C conversion (int)x of a double: the fraction is dropped, towards zero.
CInt(x) == IF x >= 0 THEN x \div 10 ELSE -((-x) \div 10)

\* MCP_PARAM_NUMBER_REQUIRED("temperature", ..., 40, 90); the members the
\* macro does not name are zero.
SET_THERMOSTAT_PARAMS ==
  << [name |-> "temperature", type |-> "number",
      description |-> "Target temperature in Fahrenheit (must be between 40 and 90)",
      required |-> TRUE, has_minimum |-> TRUE, minimum |-> FromInt(40),
      has_maximum |-> TRUE, maximum |-> FromInt(90),
      min_length |-> 0, max_length |-> 0, pattern |-> NULL,
      has_min_length |-> FALSE, has_max_length |-> FALSE,
      enum_values |-> NULL, enum_count |-> 0] >>

\* Parameter arrays are referenced by pointer; Deref gives the array.
Deref(parameters) ==
  IF parameters = "SET_THERMOSTAT_PARAMS" THEN SET_THERMOSTAT_PARAMS ELSE <<>>

\* The definition the application holds for catalogue index i.
ToolDefinition(i) ==
  [name |-> ToolNames[i],
   description |-> IF i = 4 THEN NULL ELSE "description",
   handler |-> ToolHandlers[i],
   parameters |-> IF i = 3 THEN "SET_THERMOSTAT_PARAMS" ELSE NULL,
   parameter_count |-> IF i = 3 THEN 1 ELSE 0]

\* ------------------------------------------------------------------------
\* Inbound message bodies (what httpd_req_recv delivers)
\* ------------------------------------------------------------------------
EmptyObj == [k \in {} |-> NoItem]
Opt(key, item) == IF item = NoItem THEN EmptyObj ELSE (key :> item)

\* A well-formed JSON object body with the given members (NoItem = member
\* not present in the text).
Body(id, method, params) ==
  [wellformed |-> TRUE,
   root |-> JObject(("jsonrpc" :> JString("2.0")) @@ Opt("id", id)
                    @@ Opt("method", method) @@ Opt("params", params))]

\* A body cJSON_Parse rejects, and a well-formed body that is not an object.
Garbage == [wellformed |-> FALSE, root |-> NoItem]
BareNumber == [wellformed |-> TRUE, root |-> JNumber(1)]

IdValues == {NoItem, JNumber(7)}

InitializeParams ==
  { NoItem,
    JObject(EmptyObj),
    JObject("protocolVersion" :> JString("2025-03-26")),
    JObject(("protocolVersion" :> JString("2025-03-26"))
            @@ ("clientInfo" :> JObject("name" :> JString("inspector")))),
    JObject(("protocolVersion" :> JNumber(1))
            @@ ("clientInfo" :> JObject(EmptyObj))) }

ArgumentValues(name) ==
  IF name = "set_thermostat"
    THEN { NoItem,
           JObject("temperature" :> JNumber(35)),
           JObject("temperature" :> JNumber(72)) }
    ELSE { NoItem, JObject(EmptyObj) }

CallNames == {"hello_world", "get_temperature", "set_thermostat", "frobnicate"}

CallParams ==
  { NoItem,
    JString("hello_world"),
    JObject(EmptyObj),
    JObject("name" :> JNumber(1)) }
  \cup { JObject(("name" :> JString(n)) @@ Opt("arguments", a)) :
           n \in CallNames, a \in {NoItem, JObject(EmptyObj),
                                   JObject("temperature" :> JNumber(35)),
                                   JObject("temperature" :> JNumber(72))} }

UsefulCallParams ==
  { p \in CallParams :
      LET n == cJSON_GetObjectItem(p, "name")
      IN  cJSON_IsString(n) =>
            cJSON_GetObjectItem(p, "arguments") \in ArgumentValues(n.valuestring) }

Messages ==
  { Garbage, BareNumber }
  \cup { Body(id, m, NoItem) :
           id \in IdValues,
           m \in { NoItem, JNumber(5), JString("notifications/initialized"),
                   JString("tools/list"), JString("ping") } }
  \cup { Body(JString("abc"), m, NoItem) : m \in { NoItem, JString("tools/list") } }
  \cup { Body(id, JString("initialize"), p) : id \in IdValues, p \in InitializeParams }
  \cup { Body(id, JString("tools/call"), p) : id \in IdValues, p \in UsefulCallParams }

\* The messages on which a failing allocation is explored.
OomMessages ==
  { Garbage,
    Body(JNumber(7), JString("initialize"),
         JObject("protocolVersion" :> JString("2025-03-26"))),
    Body(JNumber(7), JString("notifications/initialized"), NoItem),
    Body(JNumber(7), JString("tools/list"), NoItem),
    Body(JNumber(7), JString("tools/call"), NoItem),
    Body(JNumber(7), JString("tools/call"), JObject("name" :> JString("hello_world"))),
    Body(JNumber(7), JString("tools/call"), JObject("name" :> JString("frobnicate"))),
    Body(JNumber(7), JString("ping"), NoItem) }

\* ------------------------------------------------------------------------
\* Protocol codec (mcp_protocol.c)
\* ------------------------------------------------------------------------
\* The request structure after memset(request, 0, ...).
ZeroRequest ==
  [jsonrpc |-> NULL, id |-> 0, method |-> NULL, params |-> NoItem,
   id_is_valid |-> FALSE, is_notification |-> FALSE]

\* mcp_protocol_free_request: releases jsonrpc, method and params and clears
\* id_is_valid.
mcp_protocol_free_request(request) ==
  [request EXCEPT !.jsonrpc = NULL, !.method = NULL, !.params = NoItem,
                  !.id_is_valid = FALSE]

\* The releases mcp_protocol_free_request makes on a request: only of the
\* members that are set.
FreeRequestEvents(request) ==
  (IF request.jsonrpc # NULL
     THEN << [e |-> "free", block |-> "request.jsonrpc"] >> ELSE <<>>)
  \o (IF request.method # NULL
        THEN << [e |-> "free", block |-> "request.method"] >> ELSE <<>>)
  \o (IF request.params # NoItem
        THEN << [e |-> "cJSON_Delete", block |-> "request.params"] >> ELSE <<>>)

\* The allocations mcp_protocol_parse_request makes for the request, and the
\* releases of its failure path.
ParseEvents(json_str) ==
  IF ~json_str.wellformed
    THEN <<>>
    ELSE
      LET root == json_str.root
          jsonrpc == cJSON_GetObjectItem(root, "jsonrpc")
          method == cJSON_GetObjectItem(root, "method")
          params == cJSON_GetObjectItem(root, "params")
          dup_jsonrpc ==
            IF jsonrpc # NoItem /\ cJSON_IsString(jsonrpc)
              THEN << [e |-> "strdup", block |-> "request.jsonrpc"] >> ELSE <<>>
      IN  IF method # NoItem /\ cJSON_IsString(method)
            THEN dup_jsonrpc
                 \o << [e |-> "strdup", block |-> "request.method"] >>
                 \o (IF params # NoItem
                       THEN << [e |-> "cJSON_Duplicate", block |-> "request.params"] >>
                       ELSE <<>>)
            ELSE dup_jsonrpc
                 \o FreeRequestEvents(
                      IF dup_jsonrpc # <<>>
                        THEN [ZeroRequest EXCEPT !.jsonrpc = jsonrpc.valuestring]
                        ELSE ZeroRequest)

\* Parsing that leaves is_notification as memset left it when there is no
\* numeric id.
mcp_protocol_parse_request_noFlag(json_str) ==
  IF ~json_str.wellformed
    THEN [ret |-> ESP_FAIL, request |-> ZeroRequest]
    ELSE
      LET root == json_str.root
          jsonrpc == cJSON_GetObjectItem(root, "jsonrpc")
          id == cJSON_GetObjectItem(root, "id")
          method == cJSON_GetObjectItem(root, "method")
          params == cJSON_GetObjectItem(root, "params")
          r1 == IF jsonrpc # NoItem /\ cJSON_IsString(jsonrpc)
                  THEN [ZeroRequest EXCEPT !.jsonrpc = jsonrpc.valuestring]
                  ELSE ZeroRequest
          r2 == IF id # NoItem /\ cJSON_IsNumber(id)
                  THEN [r1 EXCEPT !.id = id.valueint, !.id_is_valid = TRUE]
                  ELSE r1
      IN  IF method # NoItem /\ cJSON_IsString(method)
            THEN [ret |-> ESP_OK,
                  request |-> [r2 EXCEPT !.method = method.valuestring,
                                         !.params = params]]
            ELSE [ret |-> ESP_FAIL, request |-> mcp_protocol_free_request(r2)]

\* mcp_protocol_parse_request: [ret, request].
mcp_protocol_parse_request(json_str) ==
  IF ~json_str.wellformed
    THEN [ret |-> ESP_FAIL, request |-> ZeroRequest]
    ELSE
      LET root == json_str.root
          jsonrpc == cJSON_GetObjectItem(root, "jsonrpc")
          id == cJSON_GetObjectItem(root, "id")
          method == cJSON_GetObjectItem(root, "method")
          params == cJSON_GetObjectItem(root, "params")
          r1 == IF jsonrpc # NoItem /\ cJSON_IsString(jsonrpc)
                  THEN [ZeroRequest EXCEPT !.jsonrpc = jsonrpc.valuestring]
                  ELSE ZeroRequest
          r2 == IF id # NoItem /\ cJSON_IsNumber(id)
                  THEN [r1 EXCEPT !.id = id.valueint, !.id_is_valid = TRUE,
                                  !.is_notification = FALSE]
                  ELSE [r1 EXCEPT !.is_notification = TRUE]
      IN  IF method # NoItem /\ cJSON_IsString(method)
            THEN [ret |-> ESP_OK,
                  request |-> [r2 EXCEPT !.method = method.valuestring,
                                         !.params = params]]
            ELSE [ret |-> ESP_FAIL, request |-> mcp_protocol_free_request(r2)]

JNull == [t |-> "null"]

\* mcp_protocol_create_response: the text of a success envelope, modelled
\* as the JSON object it prints.  A NULL result is printed as null.
mcp_protocol_create_response(id, result) ==
  [jsonrpc |-> "2.0", id |-> id,
   result |-> IF result = NoItem THEN JNull ELSE result]

\* mcp_protocol_create_error: the text of an error envelope.
mcp_protocol_create_error(id, code, message) ==
  [jsonrpc |-> "2.0", id |-> id,
   error |-> [code |-> code,
              message |-> IF message = NULL THEN "Unknown error" ELSE message]]

\* ------------------------------------------------------------------------
\* Tool results (mcp_tool.c)
\* ------------------------------------------------------------------------
ZeroResult ==
  [success |-> FALSE, content |-> NULL, error_message |-> NULL,
   _content_allocated |-> FALSE, _error_allocated |-> FALSE]

\* What the strdup calls of a result constructor return: all succeed, the
\* first fails, or all fail.
StrdupOutcomes == {"ok", "first_fails", "all_fail"}

\* A success constructor that reports the failed copy but keeps success set.
mcp_tool_result_success_keepsSuccess(content, mem) ==
  IF content = NULL
    THEN [ZeroResult EXCEPT !.success = TRUE]
  ELSE IF mem = "ok"
    THEN [ZeroResult EXCEPT !.success = TRUE, !.content = content,
                            !._content_allocated = TRUE]
    ELSE [ZeroResult EXCEPT !.success = TRUE,
                            !._content_allocated = TRUE,
                            !.error_message = IF mem = "first_fails"
                                                THEN "Memory allocation failed"
                                                ELSE NULL,
                            !._error_allocated = TRUE]

\* mem: the outcome of strdup(content) and of the strdup of the fallback
\* message.
mcp_tool_result_success(content, mem) ==
  IF content = NULL
    THEN [ZeroResult EXCEPT !.success = TRUE]
  ELSE IF mem = "ok"
    THEN [ZeroResult EXCEPT !.success = TRUE, !.content = content,
                            !._content_allocated = TRUE]
    ELSE [ZeroResult EXCEPT !.success = FALSE,
                            !._content_allocated = TRUE,
                            !.error_message = IF mem = "first_fails"
                                                THEN "Memory allocation failed"
                                                ELSE NULL,
                            !._error_allocated = TRUE]

mcp_tool_result_error(error_message, mem) ==
  IF error_message = NULL
    THEN ZeroResult
    ELSE [ZeroResult EXCEPT !.error_message = IF mem = "ok"
                                                THEN error_message ELSE NULL,
                            !._error_allocated = TRUE]

\* The strings mcp_tool_result_free passes to free().
Released(result) ==
  (IF result._content_allocated /\ result.content # NULL
     THEN {"content"} ELSE {})
  \cup (IF result._error_allocated /\ result.error_message # NULL
          THEN {"error_message"} ELSE {})

\* A free that leaves the pointers and flags as they were.
mcp_tool_result_free_keepsFlags(result) == result

mcp_tool_result_free(result) ==
  [result EXCEPT
     !.content = IF result._content_allocated /\ result.content # NULL
                   THEN NULL ELSE @,
     !.error_message = IF result._error_allocated /\ result.error_message # NULL
                         THEN NULL ELSE @,
     !._content_allocated = FALSE,
     !._error_allocated = FALSE]

mcp_tool_result_to_json(result) ==
  IF result.success
    THEN [content |-> << [type |-> "text",
                          text |-> IF result.content # NULL
                                     THEN result.content ELSE ""] >>]
    ELSE [error |-> IF result.error_message # NULL
                      THEN result.error_message ELSE "Unknown error"]

mcp_tool_args_get_double(args, key, default_val) ==
  IF args.json = NoItem
    THEN default_val
    ELSE LET item == cJSON_GetObjectItem(args.json, key)
         IN  IF item = NoItem \/ ~cJSON_IsNumber(item)
               THEN default_val
               ELSE item.valueint

\* ------------------------------------------------------------------------
\* Application tool handlers (examples/mcp_server/main/main.cpp)
\* ------------------------------------------------------------------------
\* rand() % 41 of get_temperature_handler is drawn from RandValues.
RandValues == {0, 40}

TemperatureText(t) ==
  IF t = 40 THEN "{\"temperature\": 40.0, \"unit\": \"F\"}"
            ELSE "{\"temperature\": 80.0, \"unit\": \"F\"}"

hello_world_handler(args) ==
  { mcp_tool_result_success("Hello from ESP32 MCP Server!", "ok") }

get_temperature_handler(args) ==
  { mcp_tool_result_success(TemperatureText(40 + r), "ok") : r \in RandValues }

set_thermostat_handler(args) ==
  LET new_setpoint == mcp_tool_args_get_double(args, "temperature", -999)
  IN  IF new_setpoint = -999 \/ new_setpoint < 40 \/ new_setpoint > 90
        THEN { mcp_tool_result_error(
                 "Invalid temperature value (must be between 40 and 90 degrees)", "ok") }
        ELSE { mcp_tool_result_success("{\"setpoint\": 72.0, \"status\": \"success\"}", "ok") }

\* The results the handler behind a function pointer can return.
CallHandler(handler, args) ==
  CASE handler = "hello_world_handler" -> hello_world_handler(args)
    [] handler = "get_temperature_handler" -> get_temperature_handler(args)
    [] handler = "set_thermostat_handler" -> set_thermostat_handler(args)
    [] OTHER -> { mcp_tool_result_success(NULL, "ok") }

\* ------------------------------------------------------------------------
\* Schema engine (mcp_schema.c)
\* ------------------------------------------------------------------------
\* A number item made by cJSON_AddNumberToObject from a double (in tenths).
JDouble(x) == [t |-> "number", valueint |-> CInt(x), valuedouble |-> x]

\* Arrays of enum values are referenced by pointer.
MODE_VALUES == << "heat", "cool", "auto" >>
DerefEnum(enum_values) ==
  IF enum_values = "MODE_VALUES" THEN MODE_VALUES ELSE <<>>

\* The enum array: one string item per value.
EnumArray(schema) ==
  [i \in 1..schema.enum_count |-> JString(DerefEnum(schema.enum_values)[i])]

\* A conversion that writes the numeric bounds whether or not they are set.
mcp_schema_param_to_json_unsetBounds(schema) ==
  IF schema.name = NULL
    THEN NoItem
    ELSE
      LET numeric == schema.type \in {"number", "integer"}
          integer == schema.type = "integer"
          textual == schema.type = "string"
      IN  ("type" :> JString(schema.type))
          @@ (IF schema.description # NULL
                THEN ("description" :> JString(schema.description)) ELSE EmptyObj)
          @@ (IF numeric
                THEN ("minimum" :> JDouble(IF integer
                                             THEN FromInt(CInt(schema.minimum))
                                             ELSE schema.minimum))
                ELSE EmptyObj)
          @@ (IF numeric
                THEN ("maximum" :> JDouble(IF integer
                                             THEN FromInt(CInt(schema.maximum))
                                             ELSE schema.maximum))
                ELSE EmptyObj)
          @@ (IF textual /\ schema.has_min_length
                THEN ("minLength" :> JDouble(FromInt(schema.min_length))) ELSE EmptyObj)
          @@ (IF textual /\ schema.has_max_length
                THEN ("maxLength" :> JDouble(FromInt(schema.max_length))) ELSE EmptyObj)
          @@ (IF textual /\ schema.pattern # NULL
                THEN ("pattern" :> JString(schema.pattern)) ELSE EmptyObj)
          @@ (IF schema.enum_values # NULL /\ schema.enum_count > 0
                THEN ("enum" :> EnumArray(schema)) ELSE EmptyObj)

\* mcp_schema_param_to_json: the members of the parameter object, NoItem
\* for the NULL result.
mcp_schema_param_to_json(schema) ==
  IF schema.name = NULL
    THEN NoItem
    ELSE
      LET numeric == schema.type \in {"number", "integer"}
          integer == schema.type = "integer"
          textual == schema.type = "string"
      IN  ("type" :> JString(schema.type))
          @@ (IF schema.description # NULL
                THEN ("description" :> JString(schema.description)) ELSE EmptyObj)
          @@ (IF numeric /\ schema.has_minimum
                THEN ("minimum" :> JDouble(IF integer
                                             THEN FromInt(CInt(schema.minimum))
                                             ELSE schema.minimum))
                ELSE EmptyObj)
          @@ (IF numeric /\ schema.has_maximum
                THEN ("maximum" :> JDouble(IF integer
                                             THEN FromInt(CInt(schema.maximum))
                                             ELSE schema.maximum))
                ELSE EmptyObj)
          @@ (IF textual /\ schema.has_min_length
                THEN ("minLength" :> JDouble(FromInt(schema.min_length))) ELSE EmptyObj)
          @@ (IF textual /\ schema.has_max_length
                THEN ("maxLength" :> JDouble(FromInt(schema.max_length))) ELSE EmptyObj)
          @@ (IF textual /\ schema.pattern # NULL
                THEN ("pattern" :> JString(schema.pattern)) ELSE EmptyObj)
          @@ (IF schema.enum_values # NULL /\ schema.enum_count > 0
                THEN ("enum" :> EnumArray(schema)) ELSE EmptyObj)

RECURSIVE SchemaProperties(_, _)
SchemaProperties(parameters, count) ==
  IF count = 0
    THEN <<>>
    ELSE LET param == parameters[count]
             param_json == mcp_schema_param_to_json(param)
             rest == SchemaProperties(parameters, count - 1)
         IN  IF param_json # NoItem
               THEN Append(rest, [name |-> param.name, value |-> param_json])
               ELSE rest

\* A required array that also takes the parameters without a name.
RECURSIVE SchemaRequired_unnamed(_, _)
SchemaRequired_unnamed(parameters, count) ==
  IF count = 0
    THEN <<>>
    ELSE LET param == parameters[count]
             rest == SchemaRequired_unnamed(parameters, count - 1)
         IN  IF param.required THEN Append(rest, param.name) ELSE rest

RECURSIVE SchemaRequired(_, _)
SchemaRequired(parameters, count) ==
  IF count = 0
    THEN <<>>
    ELSE LET param == parameters[count]
             rest == SchemaRequired(parameters, count - 1)
         IN  IF mcp_schema_param_to_json(param) # NoItem /\ param.required
               THEN Append(rest, param.name)
               ELSE rest

mcp_schema_to_json(parameters, count) ==
  [type |-> "object",
   properties |-> SchemaProperties(parameters, count),
   required |-> SchemaRequired(parameters, count)]

\* ------------------------------------------------------------------------
\* Server state and tool registry (mcp_server.c)
\* ------------------------------------------------------------------------
NullEntry ==
  [name |-> NULL, description |-> NULL, handler |-> NULL,
   parameters |-> NULL, parameter_count |-> 0]

\* strcasecmp in the place of strcmp.
ToLower(a) == IF a = "HELLO_WORLD" THEN "hello_world" ELSE a
strcmp_ignoreCase(a, b) == IF ToLower(a) = ToLower(b) THEN 0 ELSE 1

\* strcmp restricted to its use here: 0 iff the strings are equal.
strcmp(a, b) == IF a = b THEN 0 ELSE 1

Min(S) == CHOOSE m \in S : \A n \in S : m <= n

\* find_tool: index of the first entry below tool_count with that name,
\* 0 for the NULL result.
find_tool(server, name) ==
  IF name = NULL
    THEN 0
    ELSE LET hits == { i \in 1..server.tool_count :
                         strcmp(server.tools[i].name, name) = 0 }
         IN  IF hits = {} THEN 0 ELSE Min(hits)

mcp_server_has_tool(server, name) == find_tool(server, name) # 0

mcp_server_get_tool_count(server) == server.tool_count

\* Registration that reports success when the registry is full.
mcp_server_register_tool_fullSucceeds(server, tool, mem) ==
  IF tool.name = NULL \/ tool.handler = NULL
    THEN [server |-> server, ret |-> ESP_ERR_INVALID_ARG]
  ELSE IF find_tool(server, tool.name) # 0
    THEN [server |-> server, ret |-> ESP_ERR_INVALID_STATE]
  ELSE IF server.tool_count >= MAX_TOOLS
    THEN [server |-> server, ret |-> ESP_OK]
  ELSE
    LET entry == [name |-> IF mem = "ok" THEN tool.name ELSE NULL,
                  description |-> IF mem = "ok" THEN tool.description ELSE NULL,
                  handler |-> tool.handler,
                  parameters |-> tool.parameters,
                  parameter_count |-> tool.parameter_count]
        written == [server EXCEPT !.tools[server.tool_count + 1] = entry]
    IN  IF entry.name = NULL
          THEN [server |-> written, ret |-> ESP_ERR_NO_MEM]
          ELSE [server |-> [written EXCEPT !.tool_count = @ + 1], ret |-> ESP_OK]

\* Registration that looks at the capacity before it looks for the name.
mcp_server_register_tool_capacityFirst(server, tool, mem) ==
  IF tool.name = NULL \/ tool.handler = NULL
    THEN [server |-> server, ret |-> ESP_ERR_INVALID_ARG]
  ELSE IF server.tool_count >= MAX_TOOLS
    THEN [server |-> server, ret |-> ESP_ERR_NO_MEM]
  ELSE IF find_tool(server, tool.name) # 0
    THEN [server |-> server, ret |-> ESP_ERR_INVALID_STATE]
  ELSE
    LET entry == [name |-> IF mem = "ok" THEN tool.name ELSE NULL,
                  description |-> IF mem = "ok" THEN tool.description ELSE NULL,
                  handler |-> tool.handler,
                  parameters |-> tool.parameters,
                  parameter_count |-> tool.parameter_count]
        written == [server EXCEPT !.tools[server.tool_count + 1] = entry]
    IN  IF entry.name = NULL
          THEN [server |-> written, ret |-> ESP_ERR_NO_MEM]
          ELSE [server |-> [written EXCEPT !.tool_count = @ + 1], ret |-> ESP_OK]

\* Registration without the search for the name.
mcp_server_register_tool_noDuplicateCheck(server, tool, mem) ==
  IF tool.name = NULL \/ tool.handler = NULL
    THEN [server |-> server, ret |-> ESP_ERR_INVALID_ARG]
  ELSE IF server.tool_count >= MAX_TOOLS
    THEN [server |-> server, ret |-> ESP_ERR_NO_MEM]
  ELSE
    LET entry == [name |-> IF mem = "ok" THEN tool.name ELSE NULL,
                  description |-> IF mem = "ok" THEN tool.description ELSE NULL,
                  handler |-> tool.handler,
                  parameters |-> tool.parameters,
                  parameter_count |-> tool.parameter_count]
        written == [server EXCEPT !.tools[server.tool_count + 1] = entry]
    IN  IF entry.name = NULL
          THEN [server |-> written, ret |-> ESP_ERR_NO_MEM]
          ELSE [server |-> [written EXCEPT !.tool_count = @ + 1], ret |-> ESP_OK]

\* Registration that is refused once the server has been started.
mcp_server_register_tool_onlyStopped(server, tool, mem) ==
  IF server.is_running
    THEN [server |-> server, ret |-> ESP_ERR_INVALID_STATE]
  ELSE IF tool.name = NULL \/ tool.handler = NULL
    THEN [server |-> server, ret |-> ESP_ERR_INVALID_ARG]
  ELSE IF find_tool(server, tool.name) # 0
    THEN [server |-> server, ret |-> ESP_ERR_INVALID_STATE]
  ELSE IF server.tool_count >= MAX_TOOLS
    THEN [server |-> server, ret |-> ESP_ERR_NO_MEM]
  ELSE
    LET entry == [name |-> IF mem = "ok" THEN tool.name ELSE NULL,
                  description |-> IF mem = "ok" THEN tool.description ELSE NULL,
                  handler |-> tool.handler,
                  parameters |-> tool.parameters,
                  parameter_count |-> tool.parameter_count]
        written == [server EXCEPT !.tools[server.tool_count + 1] = entry]
    IN  IF entry.name = NULL
          THEN [server |-> written, ret |-> ESP_ERR_NO_MEM]
          ELSE [server |-> [written EXCEPT !.tool_count = @ + 1], ret |-> ESP_OK]

\* mcp_server_register_tool: [server, ret].  mem = "fail" is strdup
\* returning NULL.
mcp_server_register_tool(server, tool, mem) ==
  IF tool.name = NULL \/ tool.handler = NULL
    THEN [server |-> server, ret |-> ESP_ERR_INVALID_ARG]
  ELSE IF find_tool(server, tool.name) # 0
    THEN [server |-> server, ret |-> ESP_ERR_INVALID_STATE]
  ELSE IF server.tool_count >= MAX_TOOLS
    THEN [server |-> server, ret |-> ESP_ERR_NO_MEM]
  ELSE
    LET entry == [name |-> IF mem = "ok" THEN tool.name ELSE NULL,
                  description |-> IF mem = "ok" THEN tool.description ELSE NULL,
                  handler |-> tool.handler,
                  parameters |-> tool.parameters,
                  parameter_count |-> tool.parameter_count]
        written == [server EXCEPT !.tools[server.tool_count + 1] = entry]
    IN  IF entry.name = NULL
          THEN [server |-> written, ret |-> ESP_ERR_NO_MEM]
          ELSE [server |-> [written EXCEPT !.tool_count = @ + 1], ret |-> ESP_OK]

\* mcp_server_add_tool: a definition without parameters built from its
\* arguments.
\* A loop that goes on after a failed registration and returns the first
\* error at the end.
RECURSIVE mcp_server_register_tools_continues(_, _, _)
mcp_server_register_tools_continues(server, tools, count) ==
  IF count = 0
    THEN [server |-> server, ret |-> ESP_OK]
    ELSE LET earlier == mcp_server_register_tools_continues(server, tools, count - 1)
             r == mcp_server_register_tool(earlier.server, tools[count], "ok")
         IN  [server |-> r.server,
              ret |-> IF earlier.ret # ESP_OK THEN earlier.ret ELSE r.ret]

\* mcp_server_register_tools over tools[1..count]: the loop returns at the
\* first registration that fails.
RECURSIVE mcp_server_register_tools(_, _, _)
mcp_server_register_tools(server, tools, count) ==
  IF count = 0
    THEN [server |-> server, ret |-> ESP_OK]
    ELSE LET earlier == mcp_server_register_tools(server, tools, count - 1)
         IN  IF earlier.ret # ESP_OK
               THEN earlier
               ELSE mcp_server_register_tool(earlier.server, tools[count], "ok")

mcp_server_add_tool(server, name, description, handler, mem) ==
  IF name = NULL \/ handler = NULL
    THEN [server |-> server, ret |-> ESP_ERR_INVALID_ARG]
    ELSE mcp_server_register_tool(
           server,
           [name |-> name, description |-> description, handler |-> handler,
            parameters |-> NULL, parameter_count |-> 0],
           mem)

\* ------------------------------------------------------------------------
\* Dispatch (mcp_server.c).  Every operator returns the calls it makes as a
\* sequence of events; mem says which allocation of the call fails:
\*   "ok"        none,
\*   "no_object" the first cJSON_CreateObject/cJSON_CreateArray of the
\*               method handler returns NULL,
\*   "no_string" cJSON_PrintUnformatted returns NULL, so that
\*               mcp_protocol_create_response/_error return NULL.
\* ------------------------------------------------------------------------
MemOutcomes == {"ok", "no_object", "no_string"}

DispatchInputs ==
  { [request |-> m, mem |-> "ok"] : m \in Messages }
  \cup { [request |-> m, mem |-> f] : m \in OomMessages, f \in MemOutcomes \ {"ok"} }

\* char* r = mcp_protocol_create_...(...);
\* if (r) { vtable->send_response(transport, r); free(r); }
SendIfCreated(response, mem) ==
  IF mem = "no_string"
    THEN <<>>
    ELSE << [e |-> "send_response", response |-> response] >>

\* The missing name reported without the request's id.
MissingNameReply_idZero(request_id, mem) ==
  SendIfCreated(
    mcp_protocol_create_error(0, -32602, "Missing 'name' parameter"), mem)

\* The unknown method reported with the code of "Invalid params".
MethodNotFoundReply_invalidParams(request_id, mem) ==
  SendIfCreated(
    mcp_protocol_create_error(request_id, -32602, "Method not found"), mem)

\* The unknown tool reported with the code of "Method not found".
ToolNotFoundReply_methodNotFound(request_id, mem) ==
  SendIfCreated(
    mcp_protocol_create_error(request_id, -32601, "Tool not found"), mem)

\* The parse error reported with the code of "Invalid Request".
ParseErrorReply_invalidRequest(mem) ==
  SendIfCreated(mcp_protocol_create_error(0, -32600, "Parse error"), mem)

\* The replies of handle_request and handle_call_tool that carry an error.
ParseErrorReply(mem) ==
  SendIfCreated(mcp_protocol_create_error(0, -32700, "Parse error"), mem)

MissingNameReply(request_id, mem) ==
  SendIfCreated(
    mcp_protocol_create_error(request_id, -32602, "Missing 'name' parameter"), mem)

MethodNotFoundReply(request_id, mem) ==
  SendIfCreated(
    mcp_protocol_create_error(request_id, -32601, "Method not found"), mem)

ToolNotFoundReply(request_id, mem) ==
  SendIfCreated(
    mcp_protocol_create_error(request_id, -32602, "Tool not found"), mem)

\* notifications/initialized answered like a JSON-RPC notification: nothing.
InitializedReply_silent == <<>>

\* The acknowledgement of notifications/initialized: the literal "{}".
InitializedReply == << [e |-> "send_response", response |-> EmptyObj] >>

handle_initialize(server, params, request_id, mem) ==
  LET protocol_version ==
        IF params # NoItem THEN cJSON_GetObjectItem(params, "protocolVersion")
                           ELSE NoItem
      client_info ==
        IF params # NoItem THEN cJSON_GetObjectItem(params, "clientInfo")
                           ELSE NoItem
      name ==
        IF client_info # NoItem THEN cJSON_GetObjectItem(client_info, "name")
                                ELSE NoItem
      s1 == IF protocol_version # NoItem /\ cJSON_IsString(protocol_version)
              THEN [server EXCEPT !.protocol_version = protocol_version.valuestring]
              ELSE server
      s2 == IF name # NoItem /\ cJSON_IsString(name)
              THEN [s1 EXCEPT !.client_name = name.valuestring]
              ELSE s1
      result ==
        [capabilities |-> [tools |-> EmptyObj],
         serverInfo |-> [name |-> "ESP32 MCP Server", version |-> "1.0.0"],
         protocolVersion |-> IF s2.protocol_version # NULL
                               THEN s2.protocol_version ELSE "2024-11-05"]
      dups ==
        (IF protocol_version # NoItem /\ cJSON_IsString(protocol_version)
           THEN << [e |-> "strdup", block |-> "protocol_version"] >> ELSE <<>>)
        \o (IF name # NoItem /\ cJSON_IsString(name)
              THEN << [e |-> "strdup", block |-> "client_name"] >> ELSE <<>>)
  IN  IF mem = "no_object"
        THEN [server |-> s2,
              trace |-> dups \o SendIfCreated(
                          mcp_protocol_create_error(request_id, -32603, "Internal error"),
                          "ok")]
        ELSE [server |-> s2,
              trace |-> dups \o SendIfCreated(
                          mcp_protocol_create_response(request_id, result), mem)]

\* The notification acknowledged without recording it.
handle_initialized_noFlag(server) == server

handle_initialized(server) == [server EXCEPT !.is_initialized = TRUE]

\* One element of the tools array of tools/list.
\* An entry whose inputSchema always comes from the schema engine.
ToolObject_alwaysSchema(entry) ==
  ("name" :> entry.name)
  @@ (IF entry.description # NULL
        THEN ("description" :> entry.description) ELSE EmptyObj)
  @@ ("inputSchema" :>
        mcp_schema_to_json(Deref(entry.parameters),
                           IF entry.parameters # NULL THEN entry.parameter_count ELSE 0))

ToolObject(entry) ==
  ("name" :> entry.name)
  @@ (IF entry.description # NULL
        THEN ("description" :> entry.description) ELSE EmptyObj)
  @@ ("inputSchema" :>
        IF entry.parameters # NULL /\ entry.parameter_count > 0
          THEN mcp_schema_to_json(Deref(entry.parameters), entry.parameter_count)
          ELSE [type |-> "object", properties |-> <<>>])

\* A listing that stops one entry early.
handle_list_tools_offByOne(server, request_id, mem) ==
  IF mem = "no_object"
    THEN SendIfCreated(
           mcp_protocol_create_error(request_id, -32603, "Internal error"), "ok")
    ELSE LET tools_array == [i \in 1..(server.tool_count - 1) |->
                               ToolObject(server.tools[i])]
             result == [tools |-> tools_array]
         IN  SendIfCreated(mcp_protocol_create_response(request_id, result), mem)

handle_list_tools(server, request_id, mem) ==
  IF mem = "no_object"
    THEN SendIfCreated(
           mcp_protocol_create_error(request_id, -32603, "Internal error"), "ok")
    ELSE LET tools_array == [i \in 1..server.tool_count |->
                               ToolObject(server.tools[i])]
             result == [tools |-> tools_array]
         IN  SendIfCreated(mcp_protocol_create_response(request_id, result), mem)

\* A failed tool result reported in the error member of the envelope.
handle_call_tool_rpcError(server, tool_name, args, request_id, mem) ==
  LET tool == find_tool(server, tool_name)
      searched == << [e |-> "find_tool", name |-> tool_name] >>
  IN  IF tool = 0
        THEN { searched \o ToolNotFoundReply(request_id, mem) }
        ELSE
          { LET result_json == IF mem = "no_object"
                                 THEN NoItem
                                 ELSE mcp_tool_result_to_json(result)
            IN  searched
                \o << [e |-> "handler", tool |-> tool,
                       handler |-> server.tools[tool].handler, args |-> args,
                       result |-> result] >>
                \o SendIfCreated(
                     IF result.success
                       THEN mcp_protocol_create_response(request_id, result_json)
                       ELSE mcp_protocol_create_error(request_id, -32603,
                                                      result.error_message),
                     mem)
                \o << [e |-> "mcp_tool_result_free",
                       result |-> mcp_tool_result_free(result)] >>
            : result \in CallHandler(server.tools[tool].handler, [json |-> args]) }

\* Tool calls refused until notifications/initialized has been received.
handle_call_tool_strict(server, tool_name, args, request_id, mem) ==
  LET tool == find_tool(server, tool_name)
      searched == << [e |-> "find_tool", name |-> tool_name] >>
  IN  IF ~server.is_initialized
        THEN { SendIfCreated(
                 mcp_protocol_create_error(request_id, -32002, "Server not initialized"),
                 mem) }
      ELSE IF tool = 0
        THEN { searched \o ToolNotFoundReply(request_id, mem) }
        ELSE
          { LET result_json == IF mem = "no_object"
                                 THEN NoItem
                                 ELSE mcp_tool_result_to_json(result)
            IN  searched
                \o << [e |-> "handler", tool |-> tool,
                       handler |-> server.tools[tool].handler, args |-> args,
                       result |-> result] >>
                \o SendIfCreated(
                     mcp_protocol_create_response(request_id, result_json), mem)
                \o << [e |-> "mcp_tool_result_free",
                       result |-> mcp_tool_result_free(result)] >>
            : result \in CallHandler(server.tools[tool].handler, [json |-> args]) }

\* Tool calls whose arguments break the tool's parameter schema are refused
\* by the dispatcher with -32602.
ArgsBreakSchema(entry, args) ==
  \E k \in 1..entry.parameter_count :
    LET schema == Deref(entry.parameters)[k]
        item == IF args = NoItem THEN NoItem
                ELSE cJSON_GetObjectItem(args, schema.name)
    IN  \/ schema.required /\ item = NoItem
        \/ /\ cJSON_IsNumber(item)
           /\ \/ schema.has_minimum /\ FromInt(item.valueint) < schema.minimum
              \/ schema.has_maximum /\ FromInt(item.valueint) > schema.maximum

handle_call_tool_validating(server, tool_name, args, request_id, mem) ==
  LET tool == find_tool(server, tool_name)
      searched == << [e |-> "find_tool", name |-> tool_name] >>
  IN  IF tool = 0
        THEN { searched \o ToolNotFoundReply(request_id, mem) }
      ELSE IF ArgsBreakSchema(server.tools[tool], args)
        THEN { searched
               \o SendIfCreated(
                    mcp_protocol_create_error(request_id, -32602, "Invalid params"),
                    mem) }
        ELSE
          { LET result_json == IF mem = "no_object"
                                 THEN NoItem
                                 ELSE mcp_tool_result_to_json(result)
            IN  searched
                \o << [e |-> "handler", tool |-> tool,
                       handler |-> server.tools[tool].handler, args |-> args,
                       result |-> result] >>
                \o SendIfCreated(
                     mcp_protocol_create_response(request_id, result_json), mem)
                \o << [e |-> "mcp_tool_result_free",
                       result |-> mcp_tool_result_free(result)] >>
            : result \in CallHandler(server.tools[tool].handler, [json |-> args]) }

\* handle_call_tool: the set of event sequences it can produce (one per
\* result the handler can return).
handle_call_tool(server, tool_name, args, request_id, mem) ==
  LET tool == find_tool(server, tool_name)
      searched == << [e |-> "find_tool", name |-> tool_name] >>
  IN  IF tool = 0
        THEN { searched \o ToolNotFoundReply(request_id, mem) }
        ELSE
          { LET result_json == IF mem = "no_object"
                                 THEN NoItem
                                 ELSE mcp_tool_result_to_json(result)
            IN  searched
                \o << [e |-> "handler", tool |-> tool,
                       handler |-> server.tools[tool].handler, args |-> args,
                       result |-> result] >>
                \o SendIfCreated(
                     mcp_protocol_create_response(request_id, result_json), mem)
                \o << [e |-> "mcp_tool_result_free",
                       result |-> mcp_tool_result_free(result)] >>
            : result \in CallHandler(server.tools[tool].handler, [json |-> args]) }

\* tool_name of the tools/call branch of handle_request.
CallToolName(params) ==
  IF params # NoItem
    THEN LET name_item == cJSON_GetObjectItem(params, "name")
         IN  IF name_item # NoItem /\ cJSON_IsString(name_item)
               THEN name_item.valuestring
               ELSE NULL
    ELSE NULL

\* arguments of the tools/call branch of handle_request.
CallArguments(params) ==
  IF params # NoItem THEN cJSON_GetObjectItem(params, "arguments") ELSE NoItem

\* Dispatch whose unknown-method branch returns without releasing the request.
handle_request_leakOnUnknown(server, request, mem) ==
  LET parsed == mcp_protocol_parse_request(request)
      req == parsed.request
      parsing == ParseEvents(request)
      released == << [e |-> "mcp_protocol_free_request"] >> \o FreeRequestEvents(req)
  IN  IF parsed.ret # ESP_OK
        THEN { [server |-> server, trace |-> parsing \o ParseErrorReply(mem)] }
      ELSE IF strcmp(req.method, "initialize") = 0
        THEN LET r == handle_initialize(server, req.params, req.id, mem)
             IN  { [server |-> r.server, trace |-> parsing \o r.trace \o released] }
      ELSE IF strcmp(req.method, "notifications/initialized") = 0
        THEN { [server |-> handle_initialized(server),
                trace |-> parsing \o InitializedReply \o released] }
      ELSE IF strcmp(req.method, "tools/list") = 0
        THEN { [server |-> server,
                trace |-> parsing \o handle_list_tools(server, req.id, mem) \o released] }
      ELSE IF strcmp(req.method, "tools/call") = 0
        THEN LET tool_name == CallToolName(req.params)
                 arguments == CallArguments(req.params)
             IN  IF tool_name = NULL
                   THEN { [server |-> server,
                           trace |-> parsing \o MissingNameReply(req.id, mem) \o released] }
                   ELSE { [server |-> server, trace |-> parsing \o t \o released] :
                            t \in handle_call_tool(server, tool_name, arguments,
                                                   req.id, mem) }
      ELSE { [server |-> server,
              trace |-> parsing \o MethodNotFoundReply(req.id, mem)] }

\* handle_request: the set of [server, trace] outcomes of one dispatch.
handle_request(server, request, mem) ==
  LET parsed == mcp_protocol_parse_request(request)
      req == parsed.request
      parsing == ParseEvents(request)
      released == << [e |-> "mcp_protocol_free_request"] >> \o FreeRequestEvents(req)
  IN  IF parsed.ret # ESP_OK
        THEN { [server |-> server, trace |-> parsing \o ParseErrorReply(mem)] }
      ELSE IF strcmp(req.method, "initialize") = 0
        THEN LET r == handle_initialize(server, req.params, req.id, mem)
             IN  { [server |-> r.server, trace |-> parsing \o r.trace \o released] }
      ELSE IF strcmp(req.method, "notifications/initialized") = 0
        THEN { [server |-> handle_initialized(server),
                trace |-> parsing \o InitializedReply \o released] }
      ELSE IF strcmp(req.method, "tools/list") = 0
        THEN { [server |-> server,
                trace |-> parsing \o handle_list_tools(server, req.id, mem) \o released] }
      ELSE IF strcmp(req.method, "tools/call") = 0
        THEN LET tool_name == CallToolName(req.params)
                 arguments == CallArguments(req.params)
             IN  IF tool_name = NULL
                   THEN { [server |-> server,
                           trace |-> parsing \o MissingNameReply(req.id, mem) \o released] }
                   ELSE { [server |-> server, trace |-> parsing \o t \o released] :
                            t \in handle_call_tool(server, tool_name, arguments,
                                                   req.id, mem) }
      ELSE { [server |-> server,
              trace |-> parsing \o MethodNotFoundReply(req.id, mem) \o released] }

\* ------------------------------------------------------------------------
\* HTTP transport (mcp_transport_http.c)
\* ------------------------------------------------------------------------
\* impl.server is the httpd handle (NULL: no listener); impl.pending_response
\* is the single response slot (NoItem: NULL).
HttpdOutcomes == {"ok", "httpd_start_fails", "register_post_fails"}

http_init(impl, port) ==
  [impl |-> [impl EXCEPT !.port = port, !.pending_response = NoItem],
   ret |-> ESP_OK]

\* A start that keeps the listener's handle when the POST handler cannot be
\* registered.
http_start_keepsHandle(impl, outcome) ==
  IF outcome = "httpd_start_fails"
    THEN [impl |-> impl, ret |-> ESP_FAIL]
  ELSE IF outcome = "register_post_fails"
    THEN [impl |-> [impl EXCEPT !.server = "httpd"], ret |-> ESP_FAIL]
  ELSE [impl |-> [impl EXCEPT !.server = "httpd"], ret |-> ESP_OK]

http_start(impl, outcome) ==
  IF outcome = "httpd_start_fails"
    THEN [impl |-> impl, ret |-> ESP_FAIL]
  ELSE IF outcome = "register_post_fails"
    THEN [impl |-> [impl EXCEPT !.server = NULL], ret |-> ESP_FAIL]
  ELSE [impl |-> [impl EXCEPT !.server = "httpd"], ret |-> ESP_OK]

\* Stop that keeps the handle of the listener it stopped.
http_stop_keepsHandle(impl, httpd_ret) ==
  IF impl.server # NULL
    THEN [impl |-> impl, ret |-> httpd_ret, trace |-> << [e |-> "httpd_stop"] >>]
    ELSE [impl |-> impl, ret |-> ESP_OK, trace |-> <<>>]

\* httpd_ret is what httpd_stop returns.
http_stop(impl, httpd_ret) ==
  IF impl.server # NULL
    THEN [impl |-> [impl EXCEPT !.server = NULL], ret |-> httpd_ret,
          trace |-> << [e |-> "httpd_stop"] >>]
    ELSE [impl |-> impl, ret |-> ESP_OK, trace |-> <<>>]

\* A send_response that frees the slot and stores nothing.
http_send_response_noStore(impl, response) ==
  [impl EXCEPT !.pending_response = NoItem]

http_send_response(impl, response) ==
  [impl EXCEPT !.pending_response = response]

\* free(impl) and free(transport) end the transport's memory.
http_destroy(impl) ==
  (IF impl.server # NULL THEN << [e |-> "httpd_stop"] >> ELSE <<>>)
  \o (IF impl.pending_response # NoItem
        THEN << [e |-> "free", block |-> "pending_response"] >> ELSE <<>>)
  \o << [e |-> "free", block |-> "impl"], [e |-> "free", block |-> "transport"] >>

\* ------------------------------------------------------------------------
\* Server life cycle (mcp_server.c)
\* ------------------------------------------------------------------------
\* Start that does not look at is_running.
mcp_server_start_restart(server, impl, port, outcome) ==
  LET i == http_init(impl, port)
      s == http_start(i.impl, outcome)
  IN  IF s.ret # ESP_OK
        THEN [server |-> server, impl |-> s.impl, ret |-> s.ret,
              trace |-> << [e |-> "init"], [e |-> "start"] >>]
        ELSE [server |-> [server EXCEPT !.is_running = TRUE], impl |-> s.impl,
              ret |-> ESP_OK, trace |-> << [e |-> "init"], [e |-> "start"] >>]

\* Start that sets is_running before the transport has started.
mcp_server_start_flagEarly(server, impl, port, outcome) ==
  IF server.is_running
    THEN [server |-> server, impl |-> impl, ret |-> ESP_ERR_INVALID_STATE,
          trace |-> <<>>]
    ELSE
      LET i == http_init(impl, port)
          s == http_start(i.impl, outcome)
      IN  [server |-> [server EXCEPT !.is_running = TRUE], impl |-> s.impl,
           ret |-> s.ret, trace |-> << [e |-> "init"], [e |-> "start"] >>]

\* Start that starts the transport without initialising it.
mcp_server_start_noInit(server, impl, port, outcome) ==
  IF server.is_running
    THEN [server |-> server, impl |-> impl, ret |-> ESP_ERR_INVALID_STATE,
          trace |-> <<>>]
    ELSE
      LET s == http_start(impl, outcome)
      IN  IF s.ret # ESP_OK
            THEN [server |-> server, impl |-> s.impl, ret |-> s.ret,
                  trace |-> << [e |-> "start"] >>]
            ELSE [server |-> [server EXCEPT !.is_running = TRUE], impl |-> s.impl,
                  ret |-> ESP_OK, trace |-> << [e |-> "start"] >>]

mcp_server_start(server, impl, port, outcome) ==
  IF server.is_running
    THEN [server |-> server, impl |-> impl, ret |-> ESP_ERR_INVALID_STATE,
          trace |-> <<>>]
    ELSE
      LET i == http_init(impl, port)
          s == http_start(i.impl, outcome)
      IN  IF i.ret # ESP_OK
            THEN [server |-> server, impl |-> i.impl, ret |-> i.ret,
                  trace |-> << [e |-> "init"] >>]
          ELSE IF s.ret # ESP_OK
            THEN [server |-> server, impl |-> s.impl, ret |-> s.ret,
                  trace |-> << [e |-> "init"], [e |-> "start"] >>]
          ELSE [server |-> [server EXCEPT !.is_running = TRUE], impl |-> s.impl,
                ret |-> ESP_OK, trace |-> << [e |-> "init"], [e |-> "start"] >>]

\* Stop that calls the transport whether or not the server is running.
mcp_server_stop_always(server, impl, httpd_ret) ==
  LET s == http_stop(impl, httpd_ret)
  IN  [server |-> [server EXCEPT !.is_running = FALSE], impl |-> s.impl,
       ret |-> s.ret, trace |-> << [e |-> "stop"] >> \o s.trace]

\* Stop that keeps is_running when the transport's stop fails.
mcp_server_stop_keepsRunning(server, impl, httpd_ret) ==
  IF ~server.is_running
    THEN [server |-> server, impl |-> impl, ret |-> ESP_OK, trace |-> <<>>]
    ELSE LET s == http_stop(impl, httpd_ret)
         IN  [server |-> [server EXCEPT !.is_running = (s.ret # ESP_OK)],
              impl |-> s.impl,
              ret |-> s.ret, trace |-> << [e |-> "stop"] >> \o s.trace]

\* Stop that also forgets the handshake.
mcp_server_stop_resetsInitialized(server, impl, httpd_ret) ==
  IF ~server.is_running
    THEN [server |-> server, impl |-> impl, ret |-> ESP_OK, trace |-> <<>>]
    ELSE LET s == http_stop(impl, httpd_ret)
         IN  [server |-> [server EXCEPT !.is_running = FALSE,
                                        !.is_initialized = FALSE],
              impl |-> s.impl,
              ret |-> s.ret, trace |-> << [e |-> "stop"] >> \o s.trace]

mcp_server_stop(server, impl, httpd_ret) ==
  IF ~server.is_running
    THEN [server |-> server, impl |-> impl, ret |-> ESP_OK, trace |-> <<>>]
    ELSE LET s == http_stop(impl, httpd_ret)
         IN  [server |-> [server EXCEPT !.is_running = FALSE], impl |-> s.impl,
              ret |-> s.ret, trace |-> << [e |-> "stop"] >> \o s.trace]

\* The free calls of the loop over the first n tool entries.
RECURSIVE FreeTools(_, _)
FreeTools(server, n) ==
  IF n = 0
    THEN <<>>
    ELSE FreeTools(server, n - 1)
         \o (IF server.tools[n].name # NULL
               THEN << [e |-> "free", block |-> "tools.name", index |-> n] >>
               ELSE <<>>)
         \o (IF server.tools[n].description # NULL
               THEN << [e |-> "free", block |-> "tools.description", index |-> n] >>
               ELSE <<>>)

\* The calls of mcp_server_destroy and the transport state at the moment
\* the transport's memory is released.
mcp_server_destroy(server, impl, httpd_ret) ==
  LET stopped == IF server.is_running
                   THEN mcp_server_stop(server, impl, httpd_ret)
                   ELSE [server |-> server, impl |-> impl, ret |-> ESP_OK,
                         trace |-> <<>>]
  IN  [server |-> stopped.server,
       impl |-> stopped.impl,
       trace |->
         stopped.trace
         \o FreeTools(stopped.server, stopped.server.tool_count)
         \o (IF stopped.server.protocol_version # NULL
               THEN << [e |-> "free", block |-> "protocol_version"] >> ELSE <<>>)
         \o (IF stopped.server.client_name # NULL
               THEN << [e |-> "free", block |-> "client_name"] >> ELSE <<>>)
         \o << [e |-> "destroy"] >>
         \o http_destroy(stopped.impl)
         \o << [e |-> "free", block |-> "server"] >>]

\* ------------------------------------------------------------------------
\* State
\* ------------------------------------------------------------------------
VARIABLES
  server,      \* struct mcp_server
  impl,        \* mcp_http_impl_t of the server's transport
  heap,        \* what the library has allocated and not released
  inflight,    \* the POST handlers in progress when they run concurrently
  registering, \* mcp_server_register_tool in progress on the application's task
  dispatching, \* the dispatch in progress on the transport's task
  before,      \* server and impl as they were when the last call began
  op,          \* the API call or callback that ran last, with its inputs
  ret,         \* what it returned
  trace,       \* the calls it made, in order
  http_reply   \* the HTTP reply it produced (NoReply when it is not a POST)

vars == <<server, impl, heap, inflight, registering, dispatching, before, op, ret,
          trace, http_reply>>

NoReply == [status |-> 0, body |-> NoItem]

\* A connection on which no POST is being handled.
IdlePost == [pc |-> "idle", request |-> Garbage, own |-> NoItem, reply |-> NoReply]
Connections == {1, 2}

\* What a dispatch has read of the entry it is at; a member it has not read
\* is "unread" (-1 for the count).
Unread ==
  [name |-> "unread", description |-> "unread", handler |-> "unread",
   parameters |-> "unread", parameter_count |-> -1]

\* The application's task outside mcp_server_register_tool, and the
\* transport's task outside a dispatch.
NotRegistering == [pc |-> "returned", tool |-> NullEntry, ret |-> ESP_OK]
NotDispatching ==
  [pc |-> "idle", method |-> "none", name |-> NULL, i |-> 0, count |-> 0,
   seen |-> Unread]

\* No call is in progress or under observation: the application has the
\* control and makes the next call.
NoCall == [fn |-> "none"]
Returned == op.fn \in {"mcp_server_create", "none"}

\* State after mcp_server_create(MCP_TRANSPORT_HTTP).
Init ==
  /\ server = [tools |-> [i \in 1..MAX_TOOLS |-> NullEntry],
               tool_count |-> 0,
               is_running |-> FALSE,
               is_initialized |-> FALSE,
               protocol_version |-> NULL,
               client_name |-> NULL]
  /\ impl = [server |-> NULL, port |-> 0, pending_response |-> NoItem]
  /\ heap = [server |-> "allocated", transport |-> "allocated", strings |-> 0]
  /\ inflight = [c \in Connections |-> IdlePost]
  /\ registering = NotRegistering
  /\ dispatching = NotDispatching
  /\ before = [server |-> server, impl |-> impl]
  /\ op = [fn |-> "mcp_server_create"]
  /\ ret = ESP_OK
  /\ trace = <<>>
  /\ http_reply = NoReply

\* ------------------------------------------------------------------------
\* The definitions the application tries to register in a state
\* ------------------------------------------------------------------------
Registered(s) == { s.tools[i].name : i \in 1..s.tool_count }

\* New names: the unregistered ones among the first FreeNames catalogue
\* tools, and once those are registered the next catalogue tool.
FreshIndexes(s) ==
  LET free == { i \in 1..FreeNames : ToolNames[i] \notin Registered(s) }
      rest == { i \in 1..NumNames : ToolNames[i] \notin Registered(s) }
  IN  IF free # {} THEN free
      ELSE IF rest # {} THEN {Min(rest)} ELSE {}

\* A second definition carrying an already registered name.
Duplicate(name) ==
  [name |-> name, description |-> "another description",
   handler |-> "another_handler", parameters |-> NULL, parameter_count |-> 0]

DuplicateNames(s) ==
  { s.tools[i].name : i \in { j \in 1..s.tool_count : j <= 3 \/ j = s.tool_count } }

RegisterInputs(s, cap) ==
  { [ToolDefinition(1) EXCEPT !.name = NULL],
    [ToolDefinition(1) EXCEPT !.handler = NULL] }
  \cup { Duplicate(n) : n \in DuplicateNames(s) }
  \cup { ToolDefinition(i) : i \in { j \in FreshIndexes(s) : s.tool_count < cap } }

\* ------------------------------------------------------------------------
\* Actions
\* ------------------------------------------------------------------------
\* A failing strdup is explored on valid definitions with a new name.
RegisterMem(s, tool) ==
  IF tool.name # NULL /\ tool.handler # NULL /\ tool.name \notin Registered(s)
       /\ tool.name = ToolNames[Min(FreshIndexes(s))]
    THEN {"ok", "fail"}
    ELSE {"ok"}

\* The arrays given to mcp_server_register_tools: each element is the next
\* catalogue tool not yet registered and not earlier in the array, a
\* definition without a handler, or a second definition of the first
\* registered name (of hello_world on an empty registry).
DefinitionKinds == {"fresh", "invalid", "duplicate"}

RECURSIVE DefinitionArray(_, _, _)
DefinitionArray(s, kinds, n) ==
  IF n = 0
    THEN <<>>
    ELSE LET earlier == DefinitionArray(s, kinds, n - 1)
             used == { earlier[k].name : k \in 1..(n - 1) }
             unused == { i \in 1..NumNames :
                           ToolNames[i] \notin Registered(s) \cup used }
         IN  Append(earlier,
                    IF kinds[n] = "fresh" /\ unused # {}
                      THEN ToolDefinition(Min(unused))
                    ELSE IF kinds[n] = "duplicate"
                      THEN Duplicate(IF s.tool_count > 0
                                       THEN s.tools[1].name ELSE ToolNames[1])
                    ELSE [ToolDefinition(1) EXCEPT !.handler = NULL])

RegisterToolsInputs(s) ==
  { DefinitionArray(s, kinds, Len(kinds)) :
      kinds \in UNION { [1..n -> DefinitionKinds] : n \in 0..MaxDefinitions } }

\* Arrays are explored on a registry that is almost empty (the example
\* application registers its array right after create) or almost full.
ArrayOffered(s) == s.tool_count <= 1 \/ s.tool_count >= MAX_TOOLS - 1

RegisterTools ==
  /\ heap.server = "allocated"
  /\ Returned
  /\ ArrayOffered(server)
  /\ \E tools \in RegisterToolsInputs(server) :
    LET r == mcp_server_register_tools(server, tools, Len(tools))
    IN  /\ server' = r.server
        /\ ret' = r.ret
        /\ op' = [fn |-> "mcp_server_register_tools", tools |-> tools,
                  count |-> Len(tools)]
        /\ trace' = <<>>
        /\ http_reply' = NoReply
        /\ before' = [server |-> server, impl |-> impl]
        /\ UNCHANGED <<inflight, registering, dispatching>>
        /\ UNCHANGED <<impl, heap>>

RegisterTool(cap) ==
  \E tool \in RegisterInputs(server, cap) :
    \E mem \in RegisterMem(server, tool) :
      LET r == mcp_server_register_tool(server, tool, mem)
      IN  /\ heap.server = "allocated"
          /\ Returned
          /\ server' = r.server
          /\ ret' = r.ret
          /\ op' = [fn |-> "mcp_server_register_tool", tool |-> tool, mem |-> mem]
          /\ trace' = <<>>
          /\ http_reply' = NoReply
          /\ before' = [server |-> server, impl |-> impl]
          /\ UNCHANGED <<inflight, registering, dispatching>>
          /\ UNCHANGED <<impl, heap>>

\* mcp_server_add_tool with the name, description and handler of a
\* catalogue tool, or without a name.
AddTool(cap) ==
  \E i \in { j \in FreshIndexes(server) : server.tool_count < cap } :
    \E name \in {ToolNames[i], NULL} :
      LET tool == ToolDefinition(i)
          r == mcp_server_add_tool(server, name, tool.description, tool.handler, "ok")
      IN  /\ heap.server = "allocated"
          /\ Returned
          /\ server' = r.server
          /\ ret' = r.ret
          /\ op' = [fn |-> "mcp_server_add_tool", name |-> name,
                    description |-> tool.description, handler |-> tool.handler]
          /\ trace' = <<>>
          /\ http_reply' = NoReply
          /\ before' = [server |-> server, impl |-> impl]
          /\ UNCHANGED <<inflight, registering, dispatching>>
          /\ UNCHANGED <<impl, heap>>

Start ==
  \E outcome \in HttpdOutcomes :
    LET r == mcp_server_start(server, impl, 3000, outcome)
    IN  /\ heap.server = "allocated"
        /\ Returned
        /\ UNCHANGED heap
        /\ server' = r.server
        /\ impl' = r.impl
        /\ ret' = r.ret
        /\ trace' = r.trace
        /\ op' = [fn |-> "mcp_server_start", outcome |-> outcome]
        /\ http_reply' = NoReply
        /\ before' = [server |-> server, impl |-> impl]
        /\ UNCHANGED <<inflight, registering, dispatching>>

Stop ==
  \E httpd_ret \in {ESP_OK, ESP_FAIL} :
    LET r == mcp_server_stop(server, impl, httpd_ret)
    IN  /\ heap.server = "allocated"
        /\ Returned
        /\ UNCHANGED heap
        /\ server' = r.server
        /\ impl' = r.impl
        /\ ret' = r.ret
        /\ trace' = r.trace
        /\ op' = [fn |-> "mcp_server_stop", httpd_ret |-> httpd_ret]
        /\ http_reply' = NoReply
        /\ before' = [server |-> server, impl |-> impl]
        /\ UNCHANGED <<inflight, registering, dispatching>>

IsStrdup(ev) ==
  ev.e = "strdup" /\ ev.block \in {"protocol_version", "client_name"}
IsHandshakeFree(ev) ==
  ev.e = "free" /\ ev.block \in {"protocol_version", "client_name"}

\* The last response of a trace handed to http_send_response, NoItem if none.
RECURSIVE Pending(_, _)
Pending(i, events) ==
  IF events = <<>>
    THEN i
    ELSE Pending(IF Head(events).e = "send_response"
                   THEN http_send_response(i, Head(events).response)
                   ELSE i,
                 Tail(events))

\* if (total_len >= MAX_REQUEST_SIZE) accepting a body as long as the buffer.
RequestTooLarge_strict(total_len) == total_len > MAX_REQUEST_SIZE

\* if (total_len >= MAX_REQUEST_SIZE): the buffer keeps one byte for '\0'.
RequestTooLarge(total_len) == total_len >= MAX_REQUEST_SIZE

\* A body padded with white space to a length around the limit.
LongBody == Body(JNumber(7), JString("tools/list"), NoItem)

\* What a POST brings: the body, its Content-Length, whether malloc of the
\* request buffer and httpd_req_recv succeed, and the allocation outcome of
\* the dispatch.
PostInputs ==
  { [request |-> in.request, mem |-> in.mem, content_len |-> TypicalLength,
     buffer |-> "ok", recv |-> "ok"] : in \in DispatchInputs }
  \cup { [request |-> LongBody, mem |-> "ok", content_len |-> n,
          buffer |-> "ok", recv |-> "ok"] :
            n \in { MAX_REQUEST_SIZE - 1, MAX_REQUEST_SIZE, MAX_REQUEST_SIZE + 1 } }
  \cup { [request |-> LongBody, mem |-> "ok", content_len |-> TypicalLength,
          buffer |-> "malloc_fails", recv |-> "ok"],
         [request |-> LongBody, mem |-> "ok", content_len |-> TypicalLength,
          buffer |-> "ok", recv |-> "fails"] }

\* The replies of the paths of mcp_http_post_handler that return before the
\* request handler is invoked.
Refusal(in) ==
  IF in.buffer = "malloc_fails" THEN [status |-> 500, body |-> NoItem]
  ELSE IF RequestTooLarge(in.content_len)
    THEN [status |-> 500, body |-> [text |-> "Request too large"]]
  ELSE IF in.recv = "fails" THEN [status |-> 500, body |-> NoItem]
  ELSE NoReply

\* mcp_http_post_handler: get the buffer, check the length, receive the
\* body, clear the slot, run the request handler, reply.
Post ==
  /\ heap.transport = "allocated"
  /\ Returned
  /\ impl.server # NULL
  /\ \E in \in PostInputs :
       IF Refusal(in) # NoReply
         THEN /\ http_reply' = Refusal(in)
              /\ ret' = ESP_FAIL
              /\ trace' = <<>>
              /\ op' = [fn |-> "mcp_http_post_handler", content_len |-> in.content_len,
                        buffer |-> in.buffer, recv |-> in.recv]
              /\ before' = [server |-> server, impl |-> impl]
              /\ UNCHANGED <<inflight, registering, dispatching>>
              /\ UNCHANGED <<server, impl, heap>>
         ELSE
           \E r \in handle_request(server, in.request, in.mem) :
             LET cleared == [impl EXCEPT !.pending_response = NoItem]
                 after == Pending(cleared, r.trace)
                 strings == heap.strings + Len(SelectSeq(r.trace, IsStrdup))
             IN  /\ strings <= MaxStrings
                 /\ heap' = [heap EXCEPT !.strings = strings]
                 /\ server' = r.server
                 /\ trace' = r.trace
                 /\ http_reply' = IF after.pending_response # NoItem
                                    THEN [status |-> 200, body |-> after.pending_response]
                                    ELSE [status |-> 500, body |-> NoItem]
                 /\ impl' = [after EXCEPT !.pending_response = NoItem]
                 /\ ret' = ESP_OK
                 /\ op' = [fn |-> "handle_request", request |-> in.request,
                           mem |-> in.mem, content_len |-> in.content_len]
                 /\ before' = [server |-> server, impl |-> impl]
                 /\ UNCHANGED <<inflight, registering, dispatching>>

\* mcp_server_destroy; the server is not used afterwards.
Destroy ==
  \E httpd_ret \in {ESP_OK, ESP_FAIL} :
    LET r == mcp_server_destroy(server, impl, httpd_ret)
    IN  /\ heap.server = "allocated"
        /\ Returned
        /\ server' = r.server
        /\ impl' = r.impl
        /\ heap' = [server |-> "freed", transport |-> "freed",
                    strings |-> heap.strings
                                  - Len(SelectSeq(r.trace, IsHandshakeFree))]
        /\ ret' = ESP_OK
        /\ trace' = r.trace
        /\ op' = [fn |-> "mcp_server_destroy", httpd_ret |-> httpd_ret]
        /\ http_reply' = NoReply
        /\ before' = [server |-> server, impl |-> impl]
        /\ UNCHANGED <<inflight, registering, dispatching>>

\* The call has returned to the application; server and transport stay as
\* the call left them.
Return ==
  /\ ~Returned
  /\ heap.server = "allocated"
  /\ op' = NoCall
  /\ ret' = ESP_OK
  /\ trace' = <<>>
  /\ http_reply' = NoReply
  /\ before' = [server |-> server, impl |-> impl]
  /\ UNCHANGED <<server, impl, heap, inflight, registering, dispatching>>

\* ------------------------------------------------------------------------
\* mcp_http_post_handler on two connections at once, one statement group at
\* a time: clear the slot (lines 72-76), run the request handler (line 79),
\* reply from the slot and empty it (lines 82-96).  The dispatch itself is
\* one step.
\* ------------------------------------------------------------------------
ConcurrentBodies ==
  { Body(JNumber(7), JString("tools/list"), NoItem),
    Body(JNumber(7), JString("ping"), NoItem),
    Body(JNumber(7), JString("notifications/initialized"), NoItem) }

PostClear(c) ==
  /\ inflight[c].pc \in {"idle", "replied"}
  /\ impl.server # NULL
  /\ \E request \in ConcurrentBodies :
       inflight' = [inflight EXCEPT ![c] = [pc |-> "cleared", request |-> request,
                                            own |-> NoItem, reply |-> NoReply]]
  /\ impl' = [impl EXCEPT !.pending_response = NoItem]
  /\ UNCHANGED <<server, heap, registering, dispatching, before, op, ret, trace,
               http_reply>>

PostInvoke(c) ==
  /\ inflight[c].pc = "cleared"
  /\ \E r \in handle_request(server, inflight[c].request, "ok") :
       LET after == Pending(impl, r.trace)
       IN  /\ server' = r.server
           /\ impl' = after
           /\ inflight' = [inflight EXCEPT ![c].pc = "invoked",
                                           ![c].own = after.pending_response]
  /\ UNCHANGED <<heap, registering, dispatching, before, op, ret, trace, http_reply>>

PostReply(c) ==
  /\ inflight[c].pc = "invoked"
  /\ inflight' = [inflight EXCEPT
                    ![c].pc = "replied",
                    ![c].reply = IF impl.pending_response # NoItem
                                   THEN [status |-> 200, body |-> impl.pending_response]
                                   ELSE [status |-> 500, body |-> NoItem]]
  /\ impl' = [impl EXCEPT !.pending_response = NoItem]
  /\ UNCHANGED <<server, heap, registering, dispatching, before, op, ret, trace,
               http_reply>>

\* A started server with one tool, as after mcp_server_create,
\* mcp_server_register_tool and mcp_server_start.
InitConc ==
  LET created == [tools |-> [i \in 1..MAX_TOOLS |-> NullEntry],
                  tool_count |-> 0,
                  is_running |-> FALSE,
                  is_initialized |-> FALSE,
                  protocol_version |-> NULL,
                  client_name |-> NULL]
      registered == mcp_server_register_tool(created, ToolDefinition(1), "ok")
      started == mcp_server_start(
                   registered.server,
                   [server |-> NULL, port |-> 0, pending_response |-> NoItem],
                   3000, "ok")
  IN  /\ server = started.server
      /\ impl = started.impl
      /\ heap = [server |-> "allocated", transport |-> "allocated", strings |-> 0]
      /\ inflight = [c \in Connections |-> IdlePost]
      /\ registering = NotRegistering
      /\ dispatching = NotDispatching
      /\ before = [server |-> registered.server, impl |-> started.impl]
      /\ op = [fn |-> "mcp_server_start", outcome |-> "ok"]
      /\ ret = started.ret
      /\ trace = started.trace
      /\ http_reply = NoReply

NextConc ==
  \E c \in Connections : PostClear(c) \/ PostInvoke(c) \/ PostReply(c)

SpecConc == InitConc /\ [][NextConc]_vars

\* ------------------------------------------------------------------------
\* mcp_server_register_tool on the application's task while the transport's
\* task dispatches tools/list or tools/call: each task runs one statement at
\* a time, the statements of the two interleave in any order.
\* ------------------------------------------------------------------------
\* A registration that counts the entry before it writes it.
register_tool_statement_countFirst(s, reg, mem) ==
  LET tool == reg.tool
      entry == IF reg.pc \in {"arguments", "find_tool", "capacity"}
                 THEN s.tool_count + 1 ELSE s.tool_count
      goes(pc) == [server |-> s, reg |-> [reg EXCEPT !.pc = pc]]
      returns(err) == [server |-> s, reg |-> [reg EXCEPT !.pc = "returned", !.ret = err]]
      writes(after, pc) == [server |-> after, reg |-> [reg EXCEPT !.pc = pc]]
  IN  CASE reg.pc = "arguments" ->
             IF tool.name = NULL \/ tool.handler = NULL
               THEN returns(ESP_ERR_INVALID_ARG) ELSE goes("find_tool")
        [] reg.pc = "find_tool" ->
             IF find_tool(s, tool.name) # 0
               THEN returns(ESP_ERR_INVALID_STATE) ELSE goes("capacity")
        [] reg.pc = "capacity" ->
             IF s.tool_count >= MAX_TOOLS
               THEN returns(ESP_ERR_NO_MEM)
               ELSE writes([s EXCEPT !.tool_count = @ + 1], "name")
        [] reg.pc = "name" ->
             writes([s EXCEPT !.tools[entry].name =
                                IF mem = "ok" THEN tool.name ELSE NULL],
                    "description")
        [] reg.pc = "description" ->
             writes([s EXCEPT !.tools[entry].description =
                                IF mem = "ok" THEN tool.description ELSE NULL],
                    "handler")
        [] reg.pc = "handler" ->
             writes([s EXCEPT !.tools[entry].handler = tool.handler], "parameters")
        [] reg.pc = "parameters" ->
             writes([s EXCEPT !.tools[entry].parameters = tool.parameters],
                    "parameter_count")
        [] reg.pc = "parameter_count" ->
             writes([s EXCEPT !.tools[entry].parameter_count = tool.parameter_count],
                    "check")
        [] reg.pc = "check" ->
             IF s.tools[entry].name = NULL
               THEN returns(ESP_ERR_NO_MEM) ELSE goes("count")
        [] reg.pc = "count" ->
             returns(ESP_OK)

\* The statement of mcp_server_register_tool at reg.pc, run on the server s:
\* the argument test, the search for the name, the capacity test, the five
\* assignments to the entry at index tool_count, the test of the copied
\* name, and the increment of tool_count.  mem is the outcome of the strdup
\* of the statement, when it has one.
register_tool_statement(s, reg, mem) ==
  LET tool == reg.tool
      entry == s.tool_count + 1
      goes(pc) == [server |-> s, reg |-> [reg EXCEPT !.pc = pc]]
      returns(err) == [server |-> s, reg |-> [reg EXCEPT !.pc = "returned", !.ret = err]]
      writes(after, pc) == [server |-> after, reg |-> [reg EXCEPT !.pc = pc]]
  IN  CASE reg.pc = "arguments" ->
             IF tool.name = NULL \/ tool.handler = NULL
               THEN returns(ESP_ERR_INVALID_ARG) ELSE goes("find_tool")
        [] reg.pc = "find_tool" ->
             IF find_tool(s, tool.name) # 0
               THEN returns(ESP_ERR_INVALID_STATE) ELSE goes("capacity")
        [] reg.pc = "capacity" ->
             IF s.tool_count >= MAX_TOOLS
               THEN returns(ESP_ERR_NO_MEM) ELSE goes("name")
        [] reg.pc = "name" ->
             writes([s EXCEPT !.tools[entry].name =
                                IF mem = "ok" THEN tool.name ELSE NULL],
                    "description")
        [] reg.pc = "description" ->
             writes([s EXCEPT !.tools[entry].description =
                                IF mem = "ok" THEN tool.description ELSE NULL],
                    "handler")
        [] reg.pc = "handler" ->
             writes([s EXCEPT !.tools[entry].handler = tool.handler], "parameters")
        [] reg.pc = "parameters" ->
             writes([s EXCEPT !.tools[entry].parameters = tool.parameters],
                    "parameter_count")
        [] reg.pc = "parameter_count" ->
             writes([s EXCEPT !.tools[entry].parameter_count = tool.parameter_count],
                    "check")
        [] reg.pc = "check" ->
             IF s.tools[entry].name = NULL
               THEN returns(ESP_ERR_NO_MEM) ELSE goes("count")
        [] reg.pc = "count" ->
             [server |-> [s EXCEPT !.tool_count = @ + 1],
              reg |-> [reg EXCEPT !.pc = "returned", !.ret = ESP_OK]]

\* The statement of the dispatch at d.pc.  "loop" is the loop condition of
\* handle_list_tools and of find_tool (it reads tool_count); "name",
\* "description" and "parameters" are the reads of handle_list_tools in the
\* loop body; "strcmp" is the comparison in find_tool and "handler" the call
\* through the entry it returned.  C index i is index i + 1 here.
dispatch_statement(s, d) ==
  LET entry == s.tools[d.i + 1]
  IN  CASE d.pc = "loop" ->
             IF d.i < s.tool_count
               THEN [d EXCEPT !.count = s.tool_count, !.seen = Unread,
                              !.pc = IF d.method = "tools/list"
                                       THEN "name" ELSE "strcmp"]
               ELSE [d EXCEPT !.count = s.tool_count, !.pc = "idle"]
        [] d.pc = "name" ->
             [d EXCEPT !.seen.name = entry.name, !.pc = "description"]
        [] d.pc = "description" ->
             [d EXCEPT !.seen.description = entry.description, !.pc = "parameters"]
        [] d.pc = "parameters" ->
             [d EXCEPT !.seen.parameters = entry.parameters,
                       !.seen.parameter_count = entry.parameter_count,
                       !.i = @ + 1, !.pc = "loop"]
        [] d.pc = "strcmp" ->
             IF strcmp(entry.name, d.name) = 0
               THEN [d EXCEPT !.seen.name = entry.name, !.pc = "handler"]
               ELSE [d EXCEPT !.seen.name = entry.name, !.i = @ + 1, !.pc = "loop"]
        [] d.pc = "handler" ->
             [d EXCEPT !.seen.handler = entry.handler, !.pc = "idle"]

\* The requests dispatched while the application registers.
DispatchRequests ==
  { [method |-> "tools/list", name |-> NULL] }
  \cup { [method |-> "tools/call", name |-> ToolNames[i]] : i \in 1..FreeNames }

\* The application calls mcp_server_register_tool.
RegisterCall ==
  /\ registering.pc = "returned"
  /\ \E tool \in RegisterInputs(server, RegBound) :
       registering' = [pc |-> "arguments", tool |-> tool, ret |-> ESP_OK]
  /\ UNCHANGED <<server, impl, heap, inflight, dispatching, before, op, ret,
                 trace, http_reply>>

\* The application's task runs the next statement of the registration.
RegisterStatement ==
  /\ registering.pc # "returned"
  /\ \E mem \in IF registering.pc = "name" THEN {"ok", "fail"} ELSE {"ok"} :
       LET r == register_tool_statement(server, registering, mem)
       IN  /\ server' = r.server
           /\ registering' = r.reg
  /\ UNCHANGED <<impl, heap, inflight, dispatching, before, op, ret, trace,
                 http_reply>>

\* A tools/list or tools/call request reaches its handler.
DispatchCall ==
  /\ dispatching.pc = "idle"
  /\ \E request \in DispatchRequests :
       dispatching' = [pc |-> "loop", method |-> request.method,
                       name |-> request.name, i |-> 0, count |-> 0,
                       seen |-> Unread]
  /\ UNCHANGED <<server, impl, heap, inflight, registering, before, op, ret,
                 trace, http_reply>>

\* The transport's task runs the next statement of the dispatch.
DispatchStatement ==
  /\ dispatching.pc # "idle"
  /\ dispatching' = dispatch_statement(server, dispatching)
  /\ UNCHANGED <<server, impl, heap, inflight, registering, before, op, ret,
                 trace, http_reply>>

NextInterleaved ==
  \/ RegisterCall
  \/ RegisterStatement
  \/ DispatchCall
  \/ DispatchStatement

\* A started server without tools, as after mcp_server_create and
\* mcp_server_start.
InitInterleaved ==
  LET created == [tools |-> [i \in 1..MAX_TOOLS |-> NullEntry],
                  tool_count |-> 0,
                  is_running |-> FALSE,
                  is_initialized |-> FALSE,
                  protocol_version |-> NULL,
                  client_name |-> NULL]
      started == mcp_server_start(
                   created,
                   [server |-> NULL, port |-> 0, pending_response |-> NoItem],
                   3000, "ok")
  IN  /\ server = started.server
      /\ impl = started.impl
      /\ heap = [server |-> "allocated", transport |-> "allocated", strings |-> 0]
      /\ inflight = [c \in Connections |-> IdlePost]
      /\ registering = NotRegistering
      /\ dispatching = NotDispatching
      /\ before = [server |-> created, impl |-> started.impl]
      /\ op = [fn |-> "mcp_server_start", outcome |-> "ok"]
      /\ ret = started.ret
      /\ trace = started.trace
      /\ http_reply = NoReply

SpecInterleaved == InitInterleaved /\ [][NextInterleaved]_vars

Next ==
  \/ RegisterTool(RegBound)
  \/ AddTool(RegBound)
  \/ Start
  \/ Stop
  \/ Post
  \/ Destroy
  \/ Return

Spec == Init /\ [][Next]_vars

\* The registry filled to capacity: registration without the cap.
NextCap ==
  \/ RegisterTool(MAX_TOOLS + 1)
  \/ RegisterTools
  \/ Start
  \/ Stop
  \/ Return

SpecCap == Init /\ [][NextCap]_vars

\* ------------------------------------------------------------------------
\* The schema engine on its own: the application's parameter definitions
\* are converted one at a time and as arrays.
\* ------------------------------------------------------------------------
ParamTypes ==
  {"string", "number", "integer", "boolean", "object", "array", "null"}

\* Parameter definitions with every combination of type, flags and values
\* (bounds in tenths: -2.5, 0, 2.5, 40 and 90.5).
ParamSchemas ==
  [name : {"p"},
   type : ParamTypes,
   description : {NULL, "a description"},
   required : {FALSE},
   has_minimum : BOOLEAN,
   minimum : {-25, 0, 25, 400},
   has_maximum : BOOLEAN,
   maximum : {905},
   has_min_length : BOOLEAN,
   min_length : {1},
   has_max_length : BOOLEAN,
   max_length : {8},
   pattern : {NULL, "^[a-z]+$"},
   enum_values : {NULL, "MODE_VALUES"},
   enum_count : {0, 3}]

\* Array elements: with or without a name, required or not.
ParamElements ==
  [name : {NULL, "a", "b"},
   type : {"string"},
   description : {NULL},
   required : BOOLEAN,
   has_minimum : {FALSE},
   minimum : {0},
   has_maximum : {FALSE},
   maximum : {0},
   has_min_length : {FALSE},
   min_length : {0},
   has_max_length : {FALSE},
   max_length : {0},
   pattern : {NULL},
   enum_values : {NULL},
   enum_count : {0}]

ParamArrays == UNION { [1..n -> ParamElements] : n \in 0..MaxParams }

ParamToJson ==
  /\ Returned
  /\ \E schema \in ParamSchemas \cup { e \in ParamElements : e.name = NULL } :
       /\ op' = [fn |-> "mcp_schema_param_to_json", schema |-> schema]
       /\ ret' = mcp_schema_param_to_json(schema)
  /\ UNCHANGED <<server, impl, heap, inflight, registering, dispatching, before, trace, http_reply>>

SchemaToJson ==
  /\ Returned
  /\ \E parameters \in ParamArrays :
       \E count \in 0..Len(parameters) :
         /\ op' = [fn |-> "mcp_schema_to_json", parameters |-> parameters,
                   count |-> count]
         /\ ret' = mcp_schema_to_json(parameters, count)
  /\ UNCHANGED <<server, impl, heap, inflight, registering, dispatching, before, trace, http_reply>>

NextSchema == ParamToJson \/ SchemaToJson \/ Return

SpecSchema == Init /\ [][NextSchema]_vars

\* ------------------------------------------------------------------------
\* Vocabulary of the properties
\* ------------------------------------------------------------------------
\* A member of the inbound body, read from the text (NoItem: not there).
Member(m, key) ==
  IF m.wellformed /\ m.root.t = "object" /\ key \in DOMAIN m.root.child
    THEN m.root.child[key]
    ELSE NoItem

HasMethod(m) == Member(m, "method").t = "string"
MethodOf(m) == Member(m, "method").valuestring
HasNumericId(m) == Member(m, "id").t = "number"
HasNoId(m) == Member(m, "id") = NoItem
\* The id a reply to m carries: its numeric id, 0 when it has none.
IdOf(m) == IF HasNumericId(m) THEN Member(m, "id").valueint ELSE 0

KnownMethods ==
  {"initialize", "notifications/initialized", "tools/list", "tools/call"}

IsSend(ev) == ev.e = "send_response"
IsHandler(ev) == ev.e = "handler"
IsFindTool(ev) == ev.e = "find_tool"
IsResultFree(ev) == ev.e = "mcp_tool_result_free"

Sent(t) == SelectSeq(t, IsSend)
Handlers(t) == SelectSeq(t, IsHandler)

ErrorEnvelope(id, code, message) ==
  [jsonrpc |-> "2.0", id |-> id, error |-> [code |-> code, message |-> message]]

ResultEnvelope(id, result) == [jsonrpc |-> "2.0", id |-> id, result |-> result]

IsEnvelope(response) ==
  "result" \in DOMAIN response \/ "error" \in DOMAIN response

\* ------------------------------------------------------------------------
\* Properties
\* ------------------------------------------------------------------------
\* C1: a message that parses and carries a numeric id makes handle_request
\* call send_response exactly once, whatever its method, when no allocation
\* fails.
C1_OneResponsePerRequest ==
  (/\ op.fn = "handle_request"
   /\ HasMethod(op.request)
   /\ HasNumericId(op.request)
   /\ op.mem = "ok")
  => Len(Sent(trace)) = 1

C1_Witness ==
  /\ op.fn = "handle_request"
  /\ HasNumericId(op.request)
  /\ HasMethod(op.request)
  /\ MethodOf(op.request) = "notifications/initialized"
  /\ op.mem = "ok"
  /\ Len(Sent(trace)) = 1

\* C2: a message without id whose method is not notifications/initialized
\* gets no result or error envelope through the transport.
C2_NotificationsGetNoEnvelope ==
  (/\ op.fn = "handle_request"
   /\ HasMethod(op.request)
   /\ HasNoId(op.request)
   /\ MethodOf(op.request) # "notifications/initialized")
  => \A i \in 1..Len(Sent(trace)) : ~IsEnvelope(Sent(trace)[i].response)

\* C3: a message that fails parsing is answered with exactly one error
\* envelope {id 0, code -32700, "Parse error"}; no handler runs and the
\* server state (registry, is_initialized, is_running, handshake strings)
\* and the listener are unchanged.
C3_ParseErrorReply ==
  (  (op.fn = "handle_request" /\ ~HasMethod(op.request))
     => /\ server = before.server
        /\ impl.server = before.impl.server
        /\ Handlers(trace) = <<>>
        /\ op.mem = "ok"
             => /\ Sent(trace) =
                     << [e |-> "send_response",
                         response |-> ErrorEnvelope(0, -32700, "Parse error")] >>
                /\ http_reply =
                     [status |-> 200,
                      body |-> ErrorEnvelope(0, -32700, "Parse error")])

C3_Witness ==
  /\ op.fn = "handle_request"
  /\ op.mem = "ok"
  /\ op.request.wellformed
  /\ HasNumericId(op.request)
  /\ Member(op.request, "method") = NoItem
  /\ server.tool_count > 0
  /\ server.is_initialized
  /\ http_reply.body = ErrorEnvelope(0, -32700, "Parse error")

\* Registry lookups of the properties, read from the entries themselves.
NameRegistered(s, name) == \E i \in 1..s.tool_count : s.tools[i].name = name
EntryOf(s, name) == s.tools[CHOOSE i \in 1..s.tool_count : s.tools[i].name = name]

IsRegistration(o) ==
  /\ o.fn = "mcp_server_register_tool"
  /\ o.tool.name # NULL
  /\ o.tool.handler # NULL

\* C4: a definition with name and handler whose name is new (registry not
\* full) is registered: ESP_OK, has_tool true afterwards, count + 1.  A name
\* already present (exact match) gives ESP_ERR_INVALID_STATE and leaves the
\* count and every existing entry as they were.
C4_RegisterUniqueNames ==
  (  IsRegistration(op)
     => LET name == op.tool.name
        IN  /\ (/\ ~NameRegistered(before.server, name)
                /\ before.server.tool_count < MAX_TOOLS
                /\ op.mem = "ok")
               => /\ ret = ESP_OK
                  /\ mcp_server_has_tool(server, name)
                  /\ mcp_server_get_tool_count(server)
                       = mcp_server_get_tool_count(before.server) + 1
            /\ NameRegistered(before.server, name)
               => /\ ret = ESP_ERR_INVALID_STATE
                  /\ mcp_server_get_tool_count(server)
                       = mcp_server_get_tool_count(before.server)
                  /\ \A i \in 1..before.server.tool_count :
                       server.tools[i] = before.server.tools[i])

C4_Witness ==
  /\ IsRegistration(op)
  /\ op.tool = Duplicate("HELLO_WORLD")
  /\ ret = ESP_ERR_INVALID_STATE
  /\ server.tool_count = 4
  /\ server.tools[1].name = "hello_world"
  /\ server.tools[4].name = "HELLO_WORLD"
  /\ server.tools[4].handler = "HELLO_WORLD_handler"
  /\ mcp_server_has_tool(server, "HELLO_WORLD")

\* C5: with MAX_TOOLS tools registered, registering a new name returns
\* ESP_ERR_NO_MEM and changes nothing: tool_count stays MAX_TOOLS and
\* has_tool of the rejected name stays false.
C5_CapacityExceeded ==
  (  (/\ IsRegistration(op)
      /\ before.server.tool_count = MAX_TOOLS
      /\ ~NameRegistered(before.server, op.tool.name))
     => /\ ret = ESP_ERR_NO_MEM
        /\ server = before.server
        /\ mcp_server_get_tool_count(server) = MAX_TOOLS
        /\ ~mcp_server_has_tool(server, op.tool.name))

C5_Witness ==
  /\ IsRegistration(op)
  /\ op.mem = "ok"
  /\ op.tool.name = ToolNames[MAX_TOOLS + 1]
  /\ ret = ESP_ERR_NO_MEM
  /\ server.tool_count = MAX_TOOLS
  /\ ~mcp_server_has_tool(server, ToolNames[MAX_TOOLS + 1])

\* The name and arguments members of the params of a tools/call body.
NameItem(m) ==
  LET p == Member(m, "params")
  IN  IF p.t = "object" /\ "name" \in DOMAIN p.child THEN p.child["name"] ELSE NoItem

ArgumentsItem(m) ==
  LET p == Member(m, "params")
  IN  IF p.t = "object" /\ "arguments" \in DOMAIN p.child
        THEN p.child["arguments"] ELSE NoItem

IsToolsCall(o) ==
  /\ o.fn = "handle_request"
  /\ HasMethod(o.request)
  /\ MethodOf(o.request) = "tools/call"

IsNamedToolsCall(o) == IsToolsCall(o) /\ NameItem(o.request).t = "string"

\* The payload the protocol prescribes for a handler result.
Payload(result) ==
  IF result.success
    THEN [content |-> << [type |-> "text",
                          text |-> IF result.content = NULL THEN "" ELSE result.content] >>]
    ELSE [error |-> IF result.error_message = NULL
                      THEN "Unknown error" ELSE result.error_message]

\* C6: tools/call naming a registered tool runs that tool's handler exactly
\* once and no other, sends a success envelope with the request's id whose
\* result is the payload of the handler's result (a failed result is
\* {"error": message} inside result, never the error member), and releases
\* the ToolResult only after sending.
C6_CallRegisteredTool ==
  (  (/\ IsNamedToolsCall(op)
      /\ NameRegistered(before.server, NameItem(op.request).valuestring)
      /\ op.mem = "ok")
     => LET entry == EntryOf(before.server, NameItem(op.request).valuestring)
            called == Handlers(trace)
            sent == Sent(trace)
        IN  /\ Len(called) = 1
            /\ called[1].handler = entry.handler
            /\ called[1].args = ArgumentsItem(op.request)
            /\ Len(sent) = 1
            /\ "error" \notin DOMAIN sent[1].response
            /\ HasNumericId(op.request)
                 => sent[1].response =
                      ResultEnvelope(IdOf(op.request), Payload(called[1].result))
            /\ Len(SelectSeq(trace, IsResultFree)) = 1
            /\ \E i, j \in 1..Len(trace) :
                 /\ i < j
                 /\ IsSend(trace[i])
                 /\ IsResultFree(trace[j]))

C6_Witness ==
  /\ IsNamedToolsCall(op)
  /\ op.mem = "ok"
  /\ HasNumericId(op.request)
  /\ NameItem(op.request).valuestring = "set_thermostat"
  /\ Len(Handlers(trace)) = 1
  /\ ~Handlers(trace)[1].result.success
  /\ http_reply =
       [status |-> 200,
        body |-> ResultEnvelope(7,
                   [error |-> "Invalid temperature value (must be between 40 and 90 degrees)"])]

\* C7: tools/call naming a tool that is not registered is answered with the
\* error envelope {request id, -32602, "Tool not found"}; no handler runs.
C7_ToolNotFound ==
  (  (/\ IsNamedToolsCall(op)
      /\ ~NameRegistered(before.server, NameItem(op.request).valuestring))
     => /\ Handlers(trace) = <<>>
        /\ (HasNumericId(op.request) /\ op.mem = "ok")
             => Sent(trace) =
                  << [e |-> "send_response",
                      response |-> ErrorEnvelope(IdOf(op.request), -32602,
                                                 "Tool not found")] >>)

C7_Witness ==
  /\ IsNamedToolsCall(op)
  /\ op.mem = "ok"
  /\ NameItem(op.request).valuestring = "frobnicate"
  /\ server.tool_count > 0
  /\ Handlers(trace) = <<>>
  /\ http_reply = [status |-> 200, body |-> ErrorEnvelope(7, -32602, "Tool not found")]

\* C8: tools/call with params absent, params.name absent or params.name not
\* a string is answered with {request id, -32602, "Missing 'name'
\* parameter"}; the registry is not searched and no handler runs.
C8_MissingName ==
  (IsToolsCall(op) /\ NameItem(op.request).t # "string")
  => /\ SelectSeq(trace, IsFindTool) = <<>>
     /\ Handlers(trace) = <<>>
     /\ (HasNumericId(op.request) /\ op.mem = "ok")
          => Sent(trace) =
               << [e |-> "send_response",
                   response |-> ErrorEnvelope(IdOf(op.request), -32602,
                                              "Missing 'name' parameter")] >>

C8_Witness ==
  /\ IsToolsCall(op)
  /\ op.mem = "ok"
  /\ NameItem(op.request) = JNumber(1)
  /\ server.tool_count > 0
  /\ http_reply =
       [status |-> 200, body |-> ErrorEnvelope(7, -32602, "Missing 'name' parameter")]

\* C9: a parsed message whose method is none of the four known ones is
\* answered with {request id, -32601, "Method not found"} and leaves the
\* registry and the handshake state unchanged.
C9_MethodNotFound ==
  (  (/\ op.fn = "handle_request"
      /\ HasMethod(op.request)
      /\ MethodOf(op.request) \notin KnownMethods)
     => /\ server = before.server
        /\ Handlers(trace) = <<>>
        /\ (HasNumericId(op.request) /\ op.mem = "ok")
             => Sent(trace) =
                  << [e |-> "send_response",
                      response |-> ErrorEnvelope(IdOf(op.request), -32601,
                                                 "Method not found")] >>)

C9_Witness ==
  /\ op.fn = "handle_request"
  /\ op.mem = "ok"
  /\ HasMethod(op.request)
  /\ MethodOf(op.request) = "ping"
  /\ server.tool_count > 0
  /\ server.is_initialized
  /\ server.protocol_version # NULL
  /\ http_reply = [status |-> 200, body |-> ErrorEnvelope(7, -32601, "Method not found")]

\* The handshake states a server can be in.
HandshakeStates ==
  [is_initialized : BOOLEAN,
   protocol_version : {NULL, "2025-03-26"},
   client_name : {NULL, "inspector"}]

WithHandshake(s, h) ==
  [s EXCEPT !.is_initialized = h.is_initialized,
            !.protocol_version = h.protocol_version,
            !.client_name = h.client_name]

C11_NoSchemaValidation ==
  (  (/\ IsNamedToolsCall(op)
      /\ NameRegistered(before.server, NameItem(op.request).valuestring))
     => LET called == Handlers(trace)
            sent == Sent(trace)
        IN  /\ Len(called) = 1
            /\ called[1].args = ArgumentsItem(op.request)
            /\ \A i \in 1..Len(sent) : "error" \notin DOMAIN sent[i].response
            /\ (op.mem = "ok" /\ ~called[1].result.success)
                 => /\ Len(sent) = 1
                    /\ sent[1].response.result =
                         [error |-> called[1].result.error_message])

\* An out-of-range temperature reaches set_thermostat_handler.
C11_Witness ==
  /\ IsNamedToolsCall(op)
  /\ NameItem(op.request).valuestring = "set_thermostat"
  /\ NameRegistered(before.server, "set_thermostat")
  /\ ArgumentsItem(op.request) = JObject("temperature" :> JNumber(35))
  /\ ArgsBreakSchema(EntryOf(before.server, "set_thermostat"),
                     ArgumentsItem(op.request))
  /\ Len(Handlers(trace)) = 1
  /\ ~Handlers(trace)[1].result.success

\* ------------------------------------------------------------------------
\* Life cycle
\* ------------------------------------------------------------------------
IsStart(o) == o.fn = "mcp_server_start"
IsStop(o) == o.fn = "mcp_server_stop"
InitThenStart == << [e |-> "init"], [e |-> "start"] >>

\* C12: mcp_server_start on a running server returns ESP_ERR_INVALID_STATE,
\* calls neither init nor start on the transport and changes nothing.
C12_StartWhileRunning ==
  (  (IsStart(op) /\ before.server.is_running)
     => /\ ret = ESP_ERR_INVALID_STATE
        /\ trace = <<>>
        /\ server = before.server
        /\ server.is_running
        /\ impl = before.impl)

C12_Witness ==
  /\ IsStart(op)
  /\ before.server.is_running
  /\ op.outcome = "ok"
  /\ ret = ESP_ERR_INVALID_STATE

\* C13: a start on a server that is not running calls init and then start on
\* the transport; when the transport fails the error is returned, is_running
\* stays false and nothing else of the server changes; is_running is true
\* exactly when the call returned ESP_OK; after a failure a further start is
\* not refused and again calls init and then start.
C13_StartFailure ==
  (  (IsStart(op) /\ ~before.server.is_running)
     => /\ trace = InitThenStart
        /\ ret = (IF op.outcome = "ok" THEN ESP_OK ELSE ESP_FAIL)
        /\ server = [before.server EXCEPT !.is_running = (ret = ESP_OK)]
        /\ ret # ESP_OK
             => \A outcome \in HttpdOutcomes :
                  LET again == mcp_server_start(server, impl, 3000, outcome)
                  IN  /\ again.trace = InitThenStart
                      /\ again.ret # ESP_ERR_INVALID_STATE
                      /\ again.server.is_running = (outcome = "ok")
                      /\ again.ret = ESP_OK <=> outcome = "ok")

C13_Witness ==
  /\ IsStart(op)
  /\ ~before.server.is_running
  /\ op.outcome = "register_post_fails"
  /\ ret = ESP_FAIL
  /\ ~server.is_running
  /\ before.server.tool_count > 0

\* C14: mcp_server_stop on a server that is not running returns ESP_OK, does
\* not call the transport's stop and changes neither server nor transport.
C14_StopIdempotent ==
  (  (IsStop(op) /\ ~before.server.is_running)
     => /\ ret = ESP_OK
        /\ trace = <<>>
        /\ server = before.server
        /\ impl = before.impl)

\* A stop of a server that ran before and has been stopped.
C14_Witness ==
  /\ IsStop(op)
  /\ ~before.server.is_running
  /\ before.impl.port = 3000
  /\ op.httpd_ret = ESP_FAIL
  /\ ret = ESP_OK

\* C15 as stated: mcp_server_stop on a running server returns ESP_OK and
\* leaves is_running false, whatever the transport's stop returned.
C15_StopReturnsOk ==
  (IsStop(op) /\ before.server.is_running)
    => (ret = ESP_OK /\ ~server.is_running)

\* C15 amended: mcp_server_stop on a running server calls the transport's
\* stop once, returns what it returned (ESP_OK, or the listener's error) and
\* leaves is_running false in either case.
C15_StopReturnsTransportResult ==
  (  (IsStop(op) /\ before.server.is_running)
     => /\ trace = << [e |-> "stop"], [e |-> "httpd_stop"] >>
        /\ ret = op.httpd_ret
        /\ ~server.is_running
        /\ impl.server = NULL)

C15_Witness ==
  /\ IsStop(op)
  /\ before.server.is_running
  /\ op.httpd_ret = ESP_FAIL
  /\ ret = ESP_FAIL
  /\ ~server.is_running

\* ------------------------------------------------------------------------
\* Destruction
\* ------------------------------------------------------------------------
IsDestroy(o) == o.fn = "mcp_server_destroy"
IsListenerStop(ev) == ev.e = "httpd_stop"
IsTransportStop(ev) == ev.e = "stop"
IsTransportDestroy(ev) == ev.e = "destroy"
Count(t, Test(_)) == Len(SelectSeq(t, Test))
IndexOf(t, Test(_)) == Min({ i \in 1..Len(t) : Test(t[i]) })

\* C16: mcp_server_destroy of a running server calls the transport's stop
\* first, the listener is stopped exactly once and before the transport's
\* destroy, and the transport is destroyed exactly once; on a server that is
\* not running the transport is destroyed exactly once and neither the
\* transport's stop nor the listener's is called.
C16_DestroyStopsFirst ==
  (  IsDestroy(op)
     => /\ Count(trace, IsTransportDestroy) = 1
        /\ heap.transport = "freed"
        /\ heap.server = "freed"
        /\ before.server.is_running
             => /\ trace[1].e = "stop"
                /\ Count(trace, IsTransportStop) = 1
                /\ Count(trace, IsListenerStop) = 1
                /\ IndexOf(trace, IsListenerStop) < IndexOf(trace, IsTransportDestroy)
        /\ ~before.server.is_running
             => /\ Count(trace, IsTransportStop) = 0
                /\ Count(trace, IsListenerStop) = 0)

\* A running server is destroyed and its listener reports a failing stop.
C16_Witness ==
  /\ IsDestroy(op)
  /\ before.server.is_running
  /\ before.impl.server # NULL
  /\ op.httpd_ret = ESP_FAIL
  /\ Count(trace, IsListenerStop) = 1
  /\ Count(trace, IsTransportDestroy) = 1

\* C17: after mcp_server_destroy no string allocated for protocol_version or
\* client_name remains unreleased.
C17_DestroyReleasesHandshakeStrings ==
  IsDestroy(op) => heap.strings = 0

\* ------------------------------------------------------------------------
\* Handshake
\* ------------------------------------------------------------------------
IsMethod(o, method) ==
  /\ o.fn = "handle_request"
  /\ HasMethod(o.request)
  /\ MethodOf(o.request) = method

SuppliedVersion(m) ==
  LET p == Member(m, "params")
  IN  IF p.t = "object" /\ "protocolVersion" \in DOMAIN p.child
           /\ p.child["protocolVersion"].t = "string"
        THEN p.child["protocolVersion"].valuestring
        ELSE NULL

\* C18: the protocolVersion of the response to an initialize request is the
\* protocolVersion string of that request's params, and "2024-11-05" when
\* the request supplies none.
C18_InitializeEchoesVersion ==
  (IsMethod(op, "initialize") /\ op.mem = "ok")
    => /\ Len(Sent(trace)) = 1
       /\ Sent(trace)[1].response.result.protocolVersion =
            (IF SuppliedVersion(op.request) # NULL
               THEN SuppliedVersion(op.request) ELSE "2024-11-05")

\* C19: notifications/initialized, with or without id, sets is_initialized,
\* changes nothing else of the server and sends exactly one response, the
\* literal {} (no result or error member), which is the body of the reply.
C19_InitializedAcknowledged ==
  (  IsMethod(op, "notifications/initialized")
     => /\ server = [before.server EXCEPT !.is_initialized = TRUE]
        /\ Sent(trace) = << [e |-> "send_response", response |-> EmptyObj] >>
        /\ ~IsEnvelope(Sent(trace)[1].response)
        /\ Handlers(trace) = <<>>
        /\ http_reply = [status |-> 200, body |-> EmptyObj])

C19_Witness ==
  /\ IsMethod(op, "notifications/initialized")
  /\ HasNoId(op.request)
  /\ ~before.server.is_initialized
  /\ server.is_initialized
  /\ before.server.tool_count > 0
  /\ before.server.protocol_version # NULL
  /\ http_reply.body = EmptyObj

\* C20: a parsed message is a notification exactly when it has no id member.
C20_NotificationIffNoId ==
  (op.fn = "handle_request" /\ mcp_protocol_parse_request(op.request).ret = ESP_OK)
    => (mcp_protocol_parse_request(op.request).request.is_notification
          <=> HasNoId(op.request))

\* ------------------------------------------------------------------------
\* Parsed request
\* ------------------------------------------------------------------------
IsParsed(o) ==
  o.fn = "handle_request" /\ mcp_protocol_parse_request(o.request).ret = ESP_OK
Parsed(o) == mcp_protocol_parse_request(o.request).request

RequestBlocks == {"request.jsonrpc", "request.method", "request.params"}
Acquires(t, block) ==
  { i \in 1..Len(t) : t[i].e \in {"strdup", "cJSON_Duplicate"} /\ t[i].block = block }
Releases(t, block) ==
  { i \in 1..Len(t) : t[i].e \in {"free", "cJSON_Delete"} /\ t[i].block = block }

\* C22: on every path of handle_request each member of the parsed request
\* that was allocated (jsonrpc, method, the params copy) is released exactly
\* once, after its allocation (and, when the message parsed, after the last
\* response and handler call of the dispatch); no member is released that
\* was not allocated.
C22_RequestReleasedOnce ==
  (  op.fn = "handle_request"
     => \A block \in RequestBlocks :
          /\ Cardinality(Acquires(trace, block)) <= 1
          /\ Cardinality(Releases(trace, block)) = Cardinality(Acquires(trace, block))
          /\ \A a \in Acquires(trace, block), r \in Releases(trace, block) :
               /\ a < r
               /\ IsParsed(op)
                    => \A i \in 1..Len(trace) :
                         (IsSend(trace[i]) \/ IsHandler(trace[i])) => i < r)

\* A tool call: all three members are allocated and released.
C22_Witness ==
  /\ op.fn = "handle_request"
  /\ \A block \in RequestBlocks : Cardinality(Releases(trace, block)) = 1
  /\ Len(Handlers(trace)) = 1
  /\ Len(Sent(trace)) = 1

\* ------------------------------------------------------------------------
\* tools/list
\* ------------------------------------------------------------------------
IsListing(o) == IsMethod(o, "tools/list") /\ o.mem = "ok"
Listed(t) == Sent(t)[1].response.result.tools
BareSchema == [type |-> "object", properties |-> <<>>]

\* C23: the result of tools/list has one entry per registered tool, in
\* registration order, each with the registered name; their number is
\* mcp_server_get_tool_count.
C23_ListMatchesRegistry ==
  (  IsListing(op)
     => /\ Len(Sent(trace)) = 1
        /\ DOMAIN Listed(trace) = 1..mcp_server_get_tool_count(before.server)
        /\ \A i \in 1..before.server.tool_count :
             /\ Listed(trace)[i]["name"] = before.server.tools[i].name
             /\ \A j \in 1..before.server.tool_count :
                  Listed(trace)[i]["name"] = Listed(trace)[j]["name"] => i = j)

\* A listing of tools registered in another order than the catalogue's,
\* after a registration was refused.
C23_Witness ==
  /\ IsListing(op)
  /\ before.server.tool_count = 2
  /\ Listed(trace)[1]["name"] = "get_temperature"
  /\ Listed(trace)[2]["name"] = "hello_world"
  /\ before.server.tools[3].handler # NULL

\* C24: in a tools/list entry a tool without parameters (no parameters
\* pointer or parameter_count = 0) has inputSchema {type: "object",
\* properties: {}} and no required member; a tool with parameters has the
\* members type, properties and required as mcp_schema_to_json builds them
\* (for set_thermostat: the property temperature, which is required); a tool
\* registered through mcp_server_add_tool is stored without parameters.
C24_InputSchema ==
  /\ IsListing(op)
       => \A i \in 1..before.server.tool_count :
            LET entry == before.server.tools[i]
                schema == Listed(trace)[i]["inputSchema"]
            IN  /\ (entry.parameters = NULL \/ entry.parameter_count = 0)
                     => schema = BareSchema
                /\ (entry.parameters # NULL /\ entry.parameter_count > 0)
                     => /\ DOMAIN schema = {"type", "properties", "required"}
                        /\ schema = mcp_schema_to_json(Deref(entry.parameters),
                                                       entry.parameter_count)
                        /\ Len(schema.properties) = entry.parameter_count
                /\ entry.name = "set_thermostat" /\ entry.parameters # NULL
                     => /\ schema.required = << "temperature" >>
                        /\ schema.properties[1].name = "temperature"
                /\ \A variant \in { [entry EXCEPT !.parameter_count = 0],
                                     [entry EXCEPT !.parameters = NULL] } :
                     ToolObject(variant)["inputSchema"] = BareSchema
  /\ (op.fn = "mcp_server_add_tool" /\ ret = ESP_OK)
       => LET entry == server.tools[server.tool_count]
          IN  /\ entry.name = op.name
              /\ entry.parameters = NULL
              /\ entry.parameter_count = 0
              /\ ToolObject(entry)["inputSchema"] = BareSchema

\* set_thermostat registered with its parameters is listed next to
\* hello_world, which has none.
C24_Witness ==
  /\ IsListing(op)
  /\ before.server.tool_count = 3
  /\ before.server.tools[3].name = "set_thermostat"
  /\ before.server.tools[3].parameter_count = 1
  /\ Listed(trace)[3]["inputSchema"].required = << "temperature" >>
  /\ Listed(trace)[1]["inputSchema"] = BareSchema

\* ------------------------------------------------------------------------
\* HTTP transport
\* ------------------------------------------------------------------------
IsPost(o) == o.fn \in {"handle_request", "mcp_http_post_handler"}
\* The request handler ran (once, on o.request).
CallbackInvoked(o) == o.fn = "handle_request"
Received(o) ==
  IsPost(o) /\ (o.fn = "mcp_http_post_handler" => (o.buffer = "ok" /\ o.recv = "ok"))
SizeError == [status |-> 500, body |-> [text |-> "Request too large"]]

\* C25 as stated: a POST whose body has at most MAX_REQUEST_SIZE (4096)
\* bytes is passed to the request handler; a longer one is refused with the
\* size error and the request handler is not invoked.
C25_AcceptsUpToMax ==
  Received(op)
    => /\ op.content_len <= MAX_REQUEST_SIZE => CallbackInvoked(op)
       /\ op.content_len > MAX_REQUEST_SIZE
            => (~CallbackInvoked(op) /\ http_reply = SizeError)

\* C25 amended: a POST whose body has fewer than MAX_REQUEST_SIZE bytes (at
\* most 4095) and is received is passed to the request handler; a body of
\* MAX_REQUEST_SIZE bytes or more is refused with the size error, the
\* request handler is not invoked and the server is unchanged.
C25_AcceptsBelowMax ==
  (  Received(op)
     => /\ op.content_len < MAX_REQUEST_SIZE => CallbackInvoked(op)
        /\ op.content_len >= MAX_REQUEST_SIZE
             => /\ ~CallbackInvoked(op)
                /\ http_reply = SizeError
                /\ ret = ESP_FAIL
                /\ trace = <<>>
                /\ server = before.server
                /\ impl = before.impl)

\* A body of exactly MAX_REQUEST_SIZE bytes is refused.
C25_Witness ==
  /\ op.fn = "mcp_http_post_handler"
  /\ op.content_len = MAX_REQUEST_SIZE
  /\ http_reply = SizeError
  /\ before.server.tool_count > 0

\* C26: a POST that is received runs the request handler once on its body
\* before replying and gets exactly one reply: status 200 with the response
\* last handed to send_response during the dispatch, or status 500 when the
\* dispatch handed over none; the slot is empty afterwards.
C26_ReplyIsLastResponse ==
  (  CallbackInvoked(op)
     => /\ trace \in { r.trace : r \in handle_request(before.server, op.request, op.mem) }
        /\ http_reply # NoReply
        /\ Sent(trace) # <<>>
             => http_reply = [status |-> 200,
                              body |-> Sent(trace)[Len(Sent(trace))].response]
        /\ Sent(trace) = <<>> => http_reply = [status |-> 500, body |-> NoItem]
        /\ impl.pending_response = NoItem)

\* The longest body that is accepted, answered with the envelope the
\* dispatch sent.
C26_Witness ==
  /\ CallbackInvoked(op)
  /\ op.content_len = MAX_REQUEST_SIZE - 1
  /\ Len(Sent(trace)) = 1
  /\ http_reply.status = 200
  /\ http_reply.body = Sent(trace)[1].response
  /\ IsEnvelope(http_reply.body)

IsTransportCall(ev) ==
  ev.e \in {"init", "start", "stop", "send_response", "destroy"}
TransportCalls(t) == SelectSeq(t, IsTransportCall)

\* C28: the server's calls on its transport follow the transport life cycle:
\* start comes only directly after an init that returned ESP_OK, stop is
\* called only on a transport that was started (the server is running and the
\* listener is present), destroy is the last call on the transport, and the
\* HTTP transport's stop with no listener changes nothing and returns ESP_OK.
C28_TransportLifeCycle ==
  LET calls == TransportCalls(trace)
  IN  /\ \A i \in 1..Len(calls) :
           /\ calls[i].e = "start"
                => /\ i > 1
                   /\ calls[i - 1].e = "init"
                   /\ http_init(before.impl, 3000).ret = ESP_OK
           /\ calls[i].e = "stop"
                => /\ before.server.is_running
                   /\ before.impl.server # NULL
           /\ calls[i].e = "destroy" => i = Len(calls)
      /\ heap.transport = "freed"
           => /\ IsDestroy(op)
              /\ calls # <<>>
              /\ calls[Len(calls)].e = "destroy"
      /\ impl.server = NULL
           => \A httpd_ret \in {ESP_OK, ESP_FAIL} :
                http_stop(impl, httpd_ret)
                  = [impl |-> impl, ret |-> ESP_OK, trace |-> <<>>]

C28_Witness ==
  /\ IsDestroy(op)
  /\ before.server.is_running
  /\ op.httpd_ret = ESP_OK
  /\ TransportCalls(trace) = << [e |-> "stop"], [e |-> "destroy"] >>
  /\ impl.server = NULL
  /\ heap.transport = "freed"

\* ------------------------------------------------------------------------
\* Registration and the life cycle
\* ------------------------------------------------------------------------
WithRunning(s, running) == [s EXCEPT !.is_running = running]
IsAddTool(o) == o.fn = "mcp_server_add_tool"
IsRegisterTool(o) == o.fn = "mcp_server_register_tool"

\* C29: a registration gives the same result and the same registry whether
\* the server is running or not (before start, while running, after stop);
\* start and stop leave the registry's entries and count unchanged; no call
\* changes or removes an entry already registered, and every registered tool
\* is listed by tools/list at its position and has its handler run by a
\* tools/call with its name, also when it was registered while running.
C29_RegistrationAnyState ==
  /\ IsRegisterTool(op)
       => \A running \in BOOLEAN :
            LET r == mcp_server_register_tool(
                       WithRunning(before.server, running), op.tool, op.mem)
            IN  /\ r.ret = ret
                /\ r.server = WithRunning(server, running)
  /\ IsAddTool(op)
       => \A running \in BOOLEAN :
            LET r == mcp_server_add_tool(
                       WithRunning(before.server, running),
                       op.name, op.description, op.handler, "ok")
            IN  /\ r.ret = ret
                /\ r.server = WithRunning(server, running)
  /\ (IsStart(op) \/ IsStop(op))
       => /\ server.tools = before.server.tools
          /\ server.tool_count = before.server.tool_count
  /\ server.tool_count >= before.server.tool_count
  /\ \A i \in 1..before.server.tool_count :
       server.tools[i] = before.server.tools[i]
  /\ \A i \in 1..server.tool_count :
       /\ Listed(handle_list_tools(server, JNumber(7), "ok"))[i]["name"]
            = server.tools[i].name
       /\ \A t \in handle_call_tool(server, server.tools[i].name, NoItem,
                                    JNumber(7), "ok") :
            /\ Len(Handlers(t)) = 1
            /\ Handlers(t)[1].handler = server.tools[i].handler

\* A second tool registered while the server is running.
C29_Witness ==
  /\ IsRegisterTool(op)
  /\ before.server.is_running
  /\ before.impl.server # NULL
  /\ ret = ESP_OK
  /\ before.server.tool_count = 1
  /\ server.tool_count = 2
  /\ server.is_running

\* ------------------------------------------------------------------------
\* Tool results
\* ------------------------------------------------------------------------
\* Every way a handler can fill in a result: owned or borrowed strings,
\* flags set with a NULL pointer (a failed strdup), either outcome.
ToolResults ==
  [success : BOOLEAN,
   content : {NULL, "content"},
   error_message : {NULL, "error message"},
   _content_allocated : BOOLEAN,
   _error_allocated : BOOLEAN]

FreedOnce(r) ==
  LET f == mcp_tool_result_free(r)
  IN  /\ ("content" \in Released(r)) = (r._content_allocated /\ r.content # NULL)
      /\ ("error_message" \in Released(r))
           = (r._error_allocated /\ r.error_message # NULL)
      /\ f.content = IF "content" \in Released(r) THEN NULL ELSE r.content
      /\ f.error_message
           = IF "error_message" \in Released(r) THEN NULL ELSE r.error_message
      /\ ~f._content_allocated
      /\ ~f._error_allocated
      /\ f.success = r.success
      /\ Released(f) = {}
      /\ mcp_tool_result_free(f) = f

\* C30: mcp_tool_result_free releases content and error_message only when
\* their allocated flag is set (and the pointer is not NULL), sets the
\* released pointers to NULL and clears both flags, so a second
\* mcp_tool_result_free on the same result releases nothing; a dispatch calls
\* mcp_tool_result_free once for each handler it invoked, after the handler,
\* on the result the handler returned.
C30_ResultReleasedOnce ==
  LET called == Handlers(trace)
      freed == SelectSeq(trace, IsResultFree)
  IN  /\ \A r \in ToolResults : FreedOnce(r)
      /\ Len(freed) = Len(called)
      /\ Len(called) <= 1
      /\ Len(called) = 1
           => /\ FreedOnce(called[1].result)
              /\ freed[1].result = mcp_tool_result_free(called[1].result)
              /\ IndexOf(trace, IsHandler) < IndexOf(trace, IsResultFree)

\* set_thermostat refused a temperature: the result owns its error message.
C30_Witness ==
  /\ CallbackInvoked(op)
  /\ Len(Handlers(trace)) = 1
  /\ Handlers(trace)[1].handler = "set_thermostat_handler"
  /\ Released(Handlers(trace)[1].result) = {"error_message"}
  /\ Count(trace, IsResultFree) = 1
  /\ Released(SelectSeq(trace, IsResultFree)[1].result) = {}

\* The results the two constructors can build, for a present and an absent
\* string and every outcome of their strdup calls.
BuiltResults ==
  { mcp_tool_result_success(content, mem) :
      content \in {NULL, "content"}, mem \in StrdupOutcomes }
  \cup { mcp_tool_result_error(message, mem) :
           message \in {NULL, "error message"}, mem \in StrdupOutcomes }

OnePayload(r) ==
  /\ r.success => r.error_message = NULL
  /\ ~r.success => r.content = NULL

RenderedOnce(r) ==
  LET json == mcp_tool_result_to_json(r)
  IN  IF r.success
        THEN /\ DOMAIN json = {"content"}
             /\ json.content
                  = << [type |-> "text",
                        text |-> IF r.content = NULL THEN "" ELSE r.content] >>
        ELSE /\ DOMAIN json = {"error"}
             /\ json.error = IF r.error_message = NULL
                               THEN "Unknown error" ELSE r.error_message

\* C31: a result built by mcp_tool_result_success or mcp_tool_result_error
\* carries one payload, selected by success (content only when success is
\* true, error_message only when it is false); mcp_tool_result_to_json
\* renders a result as {content: [{type: "text", text}]} when success is
\* true (text "" when content is absent) and as {error: message} when it is
\* false ("Unknown error" when the message is absent), one member and never
\* both or none; the result member of a tools/call reply is that rendering.
C31_OnePayloadRendered ==
  /\ \A r \in BuiltResults : OnePayload(r) /\ RenderedOnce(r)
  /\ \A r \in ToolResults : RenderedOnce(r)
  /\ \A i \in 1..Len(Handlers(trace)) :
       LET r == Handlers(trace)[i].result
       IN  /\ OnePayload(r)
           /\ RenderedOnce(r)
           /\ op.mem = "ok"
                => /\ Len(Sent(trace)) = 1
                   /\ Sent(trace)[1].response.result = mcp_tool_result_to_json(r)

\* hello_world answered with its text as the one content entry.
C31_Witness ==
  /\ CallbackInvoked(op)
  /\ op.mem = "ok"
  /\ Len(Handlers(trace)) = 1
  /\ Handlers(trace)[1].handler = "hello_world_handler"
  /\ Handlers(trace)[1].result.success
  /\ Handlers(trace)[1].result.error_message = NULL
  /\ http_reply.status = 200
  /\ http_reply.body.result
       = [content |-> << [type |-> "text",
                          text |-> "Hello from ESP32 MCP Server!"] >>]

\* ------------------------------------------------------------------------
\* Schema engine
\* ------------------------------------------------------------------------
IsParamToJson(o) == o.fn = "mcp_schema_param_to_json"
IsSchemaToJson(o) == o.fn = "mcp_schema_to_json"
Emits(json, member) == member \in DOMAIN json

\* v is the double x with its fraction dropped (both in tenths).
TruncatedTo(v, x) ==
  /\ v % 10 = 0
  /\ x >= 0 => (v <= x /\ x - v < 10)
  /\ x < 0 => (v >= x /\ v - x < 10)

\* C32: mcp_schema_param_to_json emits minimum (maximum) exactly when the
\* type is number or integer and has_minimum (has_maximum) is set; it emits
\* minLength, maxLength and pattern exactly when the type is string and the
\* flag is set (the pattern is not NULL); for type integer the emitted bound
\* is the value with its fraction dropped, for type number the value itself;
\* with has_minimum false there is no minimum member, whatever the value of
\* minimum (0 included).
C32_ConstraintMembers ==
  (IsParamToJson(op) /\ op.schema.name # NULL)
    => LET s == op.schema
           numeric == s.type \in {"number", "integer"}
       IN  /\ Emits(ret, "minimum") = (numeric /\ s.has_minimum)
           /\ Emits(ret, "maximum") = (numeric /\ s.has_maximum)
           /\ Emits(ret, "minLength") = (s.type = "string" /\ s.has_min_length)
           /\ Emits(ret, "maxLength") = (s.type = "string" /\ s.has_max_length)
           /\ Emits(ret, "pattern") = (s.type = "string" /\ s.pattern # NULL)
           /\ Emits(ret, "minimum")
                => IF s.type = "integer"
                     THEN TruncatedTo(ret["minimum"].valuedouble, s.minimum)
                     ELSE ret["minimum"].valuedouble = s.minimum
           /\ Emits(ret, "maximum")
                => IF s.type = "integer"
                     THEN TruncatedTo(ret["maximum"].valuedouble, s.maximum)
                     ELSE ret["maximum"].valuedouble = s.maximum
           /\ Emits(ret, "minLength")
                => ret["minLength"].valueint = s.min_length
           /\ Emits(ret, "maxLength")
                => ret["maxLength"].valueint = s.max_length
           /\ Emits(ret, "pattern") => ret["pattern"] = JString(s.pattern)
           /\ ~s.has_minimum => ~Emits(ret, "minimum")

\* An integer parameter with minimum -2.5 and maximum 90.5: -2 and 90.
C32_Witness ==
  /\ IsParamToJson(op)
  /\ op.schema.type = "integer"
  /\ op.schema.has_minimum
  /\ op.schema.has_maximum
  /\ op.schema.minimum = -25
  /\ ret["minimum"].valuedouble = -20
  /\ ret["maximum"].valuedouble = 900
  /\ ~Emits(ret, "minLength")

IsNamed(param) == param.name # NULL
IsNamedRequired(param) == param.name # NULL /\ param.required

\* C33: mcp_schema_to_json over the first count parameters of an array
\* leaves a parameter without a name out of properties and out of required
\* and still emits the others: properties holds exactly the named
\* parameters, each as mcp_schema_param_to_json renders it, and required
\* holds exactly the names of the named parameters with required set, both
\* in array order; the schema always has type "object".
C33_UnnamedParametersSkipped ==
  IsSchemaToJson(op)
    => LET given == SubSeq(op.parameters, 1, op.count)
           named == SelectSeq(given, IsNamed)
           needed == SelectSeq(given, IsNamedRequired)
       IN  /\ ret.type = "object"
           /\ Len(ret.properties) = Len(named)
           /\ \A k \in 1..Len(named) :
                /\ ret.properties[k].name = named[k].name
                /\ ret.properties[k].value = mcp_schema_param_to_json(named[k])
           /\ Len(ret.required) = Len(needed)
           /\ \A k \in 1..Len(needed) : ret.required[k] = needed[k].name

\* A required parameter without a name between two named required ones.
C33_Witness ==
  /\ IsSchemaToJson(op)
  /\ op.count = 3
  /\ op.parameters[1].name = "b"
  /\ op.parameters[2].name = NULL
  /\ op.parameters[2].required
  /\ op.parameters[3].name = "a"
  /\ ret.required = << "b", "a" >>
  /\ Len(ret.properties) = 2
  /\ ret.properties[2].name = "a"

\* ------------------------------------------------------------------------
\* Invariants of the server state
\* ------------------------------------------------------------------------
IsCreated(o) == o.fn = "mcp_server_create"

C35_RegistryInvariant ==
  /\ server.tool_count \in 0..MAX_TOOLS
  /\ \A i \in 1..server.tool_count :
       /\ server.tools[i].name # NULL
       /\ server.tools[i].handler # NULL
       /\ \A j \in 1..server.tool_count :
            server.tools[i].name = server.tools[j].name => i = j
  /\ server.tool_count >= before.server.tool_count

\* A full registry after a name that is already in it was offered again.
C35_Witness ==
  /\ IsRegistration(op)
  /\ before.server.tool_count = MAX_TOOLS
  /\ NameRegistered(before.server, op.tool.name)
  /\ ret = ESP_ERR_INVALID_STATE
  /\ server.tool_count = MAX_TOOLS

\* C36: in every state reached through the server API, whether start
\* succeeded or failed (at the listener's start or at the registration of
\* the POST handler) and whether stop succeeded or failed, is_running is
\* true exactly when the HTTP transport holds a listener handle
\* (impl->server is not NULL).
C36_RunningIffListener ==
  server.is_running <=> (impl.server # NULL)

\* A stop whose httpd_stop failed: not running, and no handle is kept.
C36_Witness ==
  /\ IsStop(op)
  /\ before.server.is_running
  /\ before.impl.server # NULL
  /\ op.httpd_ret = ESP_FAIL
  /\ ~server.is_running
  /\ impl.server = NULL
  /\ before.server.tool_count = 0

\* ------------------------------------------------------------------------
\* Registration of arrays
\* ------------------------------------------------------------------------
IsRegisterTools(o) == o.fn = "mcp_server_register_tools"

\* C37: mcp_server_register_tools registers the definitions in array order
\* and returns at the first one that fails with that registration's error:
\* the definitions before it are registered, in order, after the entries the
\* registry had, and stay registered; no definition after it is registered;
\* when none fails the result is ESP_OK and all are registered.
C37_RegisterToolsStopsAtFailure ==
  IsRegisterTools(op)
    => LET had == before.server.tool_count
           added == server.tool_count - had
       IN  /\ added \in 0..op.count
           /\ \A i \in 1..had : server.tools[i] = before.server.tools[i]
           /\ \A j \in 1..added :
                /\ server.tools[had + j].name = op.tools[j].name
                /\ server.tools[had + j].handler = op.tools[j].handler
           /\ (ret = ESP_OK) = (added = op.count)
           /\ ret # ESP_OK
                => /\ ret = mcp_server_register_tool(
                               server, op.tools[added + 1], "ok").ret
                   /\ \A j \in (added + 2)..op.count :
                        ~NameRegistered(before.server, op.tools[j].name)
                          => \/ op.tools[j].name = NULL
                             \/ \E k \in 1..added :
                                  op.tools[k].name = op.tools[j].name
                             \/ ~NameRegistered(server, op.tools[j].name)

\* One definition registered, the second refused for its missing handler,
\* the third, valid and new, not registered.
C37_Witness ==
  /\ IsRegisterTools(op)
  /\ op.count = 3
  /\ ret = ESP_ERR_INVALID_ARG
  /\ server.tool_count = before.server.tool_count + 1
  /\ op.tools[2].handler = NULL
  /\ op.tools[3].handler # NULL
  /\ ~NameRegistered(before.server, op.tools[3].name)
  /\ ~NameRegistered(server, op.tools[3].name)
  /\ NameRegistered(server, op.tools[1].name)

IsValidDefinition(tool) == tool.name # NULL /\ tool.handler # NULL

\* C38: mcp_server_register_tool refuses a definition without name or
\* handler with ESP_ERR_INVALID_ARG before any other check, then a name that
\* is already registered with ESP_ERR_INVALID_STATE, and only then looks at
\* the capacity: on a registry holding MAX_TOOLS tools a registered name
\* gives ESP_ERR_INVALID_STATE and only a new name gives ESP_ERR_NO_MEM; the
\* registry is unchanged in all three cases.
C38_DuplicateBeforeCapacity ==
  IsRegisterTool(op)
    => LET full == before.server.tool_count = MAX_TOOLS
           present == NameRegistered(before.server, op.tool.name)
       IN  /\ ~IsValidDefinition(op.tool)
                => ret = ESP_ERR_INVALID_ARG /\ server = before.server
           /\ (IsValidDefinition(op.tool) /\ present)
                => ret = ESP_ERR_INVALID_STATE /\ server = before.server
           /\ (IsValidDefinition(op.tool) /\ ~present /\ full)
                => ret = ESP_ERR_NO_MEM /\ server = before.server
           /\ (full /\ ret = ESP_ERR_NO_MEM)
                => IsValidDefinition(op.tool) /\ ~present

\* On a full registry: a definition without a handler whose name is
\* registered is refused as an invalid argument.
C38_Witness ==
  /\ IsRegisterTool(op)
  /\ before.server.tool_count = MAX_TOOLS
  /\ op.tool.handler = NULL
  /\ NameRegistered(before.server, op.tool.name)
  /\ ret = ESP_ERR_INVALID_ARG

\* An entry as a completed registration of a catalogue tool leaves it.
FullyWritten(entry) ==
  \E j \in 1..NumNames :
    /\ entry.name = ToolNames[j]
    /\ entry.handler = ToolDefinition(j).handler
    /\ entry.parameters = ToolDefinition(j).parameters
    /\ entry.parameter_count = ToolDefinition(j).parameter_count

\* What the dispatch has read of an entry agrees with a completed
\* registration of the tool whose name it read.
SeenFullyWritten(seen) ==
  \E j \in 1..NumNames :
    /\ seen.name \in {"unread", ToolNames[j]}
    /\ seen.handler \in {"unread", ToolDefinition(j).handler}
    /\ seen.parameters \in {"unread", ToolDefinition(j).parameters}
    /\ seen.parameter_count \in {-1, ToolDefinition(j).parameter_count}

\* C39: with mcp_server_register_tool and a dispatch of tools/list or
\* tools/call interleaved statement by statement, every entry at an index
\* below the tool_count the dispatch read is fully written (name, handler
\* and parameters set from the definition), and so is everything the
\* dispatch has read of an entry.
C39_NoPartialEntryObserved ==
  /\ \A k \in 1..dispatching.count : FullyWritten(server.tools[k])
  /\ dispatching.i <= dispatching.count
  /\ SeenFullyWritten(dispatching.seen)

\* The dispatch has read the handler of an entry below the tool_count it
\* read while a registration has written the name of the next entry and
\* not yet its handler.
C39_Witness ==
  /\ registering.pc \in {"description", "handler"}
  /\ server.tools[server.tool_count + 1].name = registering.tool.name
  /\ dispatching.count = server.tool_count
  /\ dispatching.count >= 1
  /\ dispatching.seen.handler # "unread"

====
